---- MODULE Spec2Model ----
(***************************************************************************)
(* Procurement-request backend: the TOON codec (app/utils/toon.py), the    *)
(* calculation and validation engine (app/services/validation_service.py), *)
(* the request service (app/services/request_service.py), authentication   *)
(* (app/auth) and offer parsing (app/services/offer_parsing.py).           *)
(*                                                                         *)
(* Text is a sequence of one-character strings.  A JSON-like value is a    *)
(* record [t |-> tag, v |-> payload]; an object is the sequence of its     *)
(* <<key, value>> pairs in insertion order, as a Python dict keeps them.   *)
(* A Decimal is [n |-> coefficient, e |-> number of fractional digits].    *)
(***************************************************************************)
EXTENDS Integers, Sequences, FiniteSets, TLC

VARIABLES
    toon_in, toon_mode, toon_text, toon_out, toon_text2, toon_pc,
    calc_call, calc_result, calc_pc,
    requests, order_lines, status_history, request_ids, now, outcome,
    users, login_attempts, token_blacklist, issued_tokens, logged_out, clock,
    auth_outcome,
    offer_call, offer_result

toon_vars == <<toon_in, toon_mode, toon_text, toon_out, toon_text2, toon_pc>>
calc_vars == <<calc_call, calc_result, calc_pc>>
svc_vars == <<requests, order_lines, status_history, request_ids, now, outcome>>
auth_vars == <<users, login_attempts, token_blacklist, issued_tokens,
               logged_out, clock, auth_outcome>>
offer_vars == <<offer_call, offer_result>>
vars == <<toon_vars, calc_vars, svc_vars, auth_vars, offer_vars>>

(***************************************************************************)
(* Bounds of the model.                                                    *)
(***************************************************************************)
MaxStrLen == 2
MaxDepth == 2
MaxLines == 3
MaxRequests == 2
MaxHistory == 3
MaxTime == 1
MaxTextLen == 3

(***************************************************************************)
(* Text helpers: the str methods the codec uses.                           *)
(***************************************************************************)
WHITESPACE == {" ", "\t", "\n", "\r"}

startswith(s, p) == Len(s) >= Len(p) /\ SubSeq(s, 1, Len(p)) = p

endswith(s, p) == Len(s) >= Len(p) /\ SubSeq(s, Len(s) - Len(p) + 1, Len(s)) = p

contains(s, c) == \E i \in 1..Len(s) : s[i] = c

\* text s opens with character open and closes with character close
Enclosed(s, open, close) == s # <<>> /\ s[1] = open /\ s[Len(s)] = close

\* s[1:], the closing character kept
inner_slice_keep_last(s) == IF s = <<>> THEN <<>> ELSE Tail(s)

\* s[1:-1]
inner_slice(s) == IF Len(s) <= 2 THEN <<>> ELSE SubSeq(s, 2, Len(s) - 1)

RECURSIVE replace(_, _, _)
\* str.replace: occurrences of old (non-empty), left to right, not overlapping
replace(s, old, new) ==
    IF Len(s) < Len(old) THEN s
    ELSE IF startswith(s, old)
         THEN new \o replace(SubSeq(s, Len(old) + 1, Len(s)), old, new)
         ELSE <<s[1]>> \o replace(Tail(s), old, new)

RECURSIVE lstrip(_)
lstrip(s) == IF s # <<>> /\ s[1] \in WHITESPACE THEN lstrip(Tail(s)) ELSE s

RECURSIVE rstrip(_)
rstrip(s) ==
    IF s # <<>> /\ s[Len(s)] \in WHITESPACE THEN rstrip(SubSeq(s, 1, Len(s) - 1)) ELSE s

strip(s) == rstrip(lstrip(s))

RECURSIVE join(_, _)
join(parts, sep) ==
    IF parts = <<>> THEN <<>>
    ELSE IF Len(parts) = 1 THEN parts[1]
    ELSE parts[1] \o sep \o join(Tail(parts), sep)

\* str.partition(c): the text before the first c and the text after it
partition_before(s, c) ==
    LET i == CHOOSE k \in 1..Len(s) : s[k] = c /\ \A j \in 1..(k - 1) : s[j] # c
    IN SubSeq(s, 1, i - 1)

\* the text after the last c
partition_after_last(s, c) ==
    LET i == CHOOSE k \in 1..Len(s) : s[k] = c /\ \A j \in (k + 1)..Len(s) : s[j] # c
    IN SubSeq(s, i + 1, Len(s))

partition_after(s, c) ==
    LET i == CHOOSE k \in 1..Len(s) : s[k] = c /\ \A j \in 1..(k - 1) : s[j] # c
    IN SubSeq(s, i + 1, Len(s))

(***************************************************************************)
(* Values.                                                                 *)
(***************************************************************************)
VNull == [t |-> "null", v |-> <<>>]
VBool(b) == [t |-> "bool", v |-> b]
VInt(n) == [t |-> "int", v |-> n]
VFloat(neg, n, e) == [t |-> "float", v |-> <<neg, n, e>>]
VStr(s) == [t |-> "str", v |-> s]
VObj(pairs) == [t |-> "obj", v |-> pairs]
VArr(items) == [t |-> "arr", v |-> items]

NULL_TEXT == <<"n", "u", "l", "l">>
TRUE_TEXT == <<"t", "r", "u", "e">>
FALSE_TEXT == <<"f", "a", "l", "s", "e">>

Digits == <<"0", "1", "2", "3", "4", "5", "6", "7", "8", "9">>

DigitSet == {Digits[i] : i \in 1..10}

DigitVal(c) == (CHOOSE i \in 1..10 : Digits[i] = c) - 1

RECURSIVE NatToStr(_)
NatToStr(n) ==
    IF n < 10 THEN <<Digits[n + 1]>>
    ELSE NatToStr(n \div 10) \o <<Digits[(n % 10) + 1]>>

\* str(value) of an int
IntToStr(n) == IF n < 0 THEN <<"-">> \o NatToStr(-n) ELSE NatToStr(n)

RECURSIVE StrToNat(_)
StrToNat(s) ==
    IF s = <<>> THEN 0
    ELSE 10 * StrToNat(SubSeq(s, 1, Len(s) - 1)) + DigitVal(s[Len(s)])

AllDigits(s) == \A i \in 1..Len(s) : s[i] \in DigitSet

Unsigned(s) == IF s # <<>> /\ s[1] \in {"-", "+"} THEN Tail(s) ELSE s

\* int(text) succeeds for digits only, a signed text does not parse
IsIntText_unsigned(s) == s # <<>> /\ AllDigits(s)

\* int(text) succeeds: an optional sign and at least one digit
IsIntText(s) == Unsigned(s) # <<>> /\ AllDigits(Unsigned(s))

ParseInt(s) ==
    IF s[1] = "-" THEN 0 - StrToNat(Unsigned(s)) ELSE StrToNat(Unsigned(s))

\* float(text) succeeds, for a text with a '.': an optional sign, digits around
\* one point, at least one digit
IsFloatText(s) ==
    LET u == Unsigned(s) IN
    /\ contains(u, ".")
    /\ AllDigits(partition_before(u, "."))
    /\ AllDigits(partition_after(u, "."))
    /\ Len(u) >= 2

RECURSIVE DropZeros(_)
DropZeros(s) ==
    IF s # <<>> /\ s[Len(s)] = "0" THEN DropZeros(SubSeq(s, 1, Len(s) - 1)) ELSE s

ParseFloat(s) ==
    LET u == Unsigned(s)
        frac == DropZeros(partition_after(u, "."))
    IN VFloat(s[1] = "-", StrToNat(partition_before(u, ".") \o frac), Len(frac))

RECURSIVE Pow10(_)
Pow10(k) == IF k = 0 THEN 1 ELSE 10 * Pow10(k - 1)

RECURSIVE PadLeft(_, _)
PadLeft(s, k) == IF Len(s) >= k THEN s ELSE PadLeft(<<"0">> \o s, k)

\* str(value) of a float of ordinary magnitude
FloatToStr(f) ==
    LET neg == f[1]
        n == f[2]
        e == f[3]
        whole == NatToStr(n \div Pow10(e))
        frac == IF e = 0 THEN <<"0">> ELSE PadLeft(NatToStr(n % Pow10(e)), e)
    IN (IF neg THEN <<"-">> ELSE <<>>) \o whole \o <<".">> \o frac

(***************************************************************************)
(* Encoding.                                                               *)
(***************************************************************************)
SPECIAL_CHARS == {"|", ":", ";", "{", "}", "[", "]", "\"", "\n", "\r", "\t"}

needs_quoting(value) ==
    IF value = <<>> THEN TRUE
    ELSE \E i \in 1..Len(value) : value[i] \in SPECIAL_CHARS

\* quote_string without the escaping of backslashes
quote_string_quotes_only(value) ==
    <<"\"">> \o replace(value, <<"\"">>, <<"\\", "\"">>) \o <<"\"">>

quote_string(value) ==
    LET escaped == replace(replace(value, <<"\\">>, <<"\\", "\\">>),
                           <<"\"">>, <<"\\", "\"">>)
    IN <<"\"">> \o escaped \o <<"\"">>

unquote_string(value) ==
    IF startswith(value, <<"\"">>) /\ endswith(value, <<"\"">>)
    THEN replace(replace(inner_slice(value), <<"\\", "\"">>, <<"\"">>),
                 <<"\\", "\\">>, <<"\\">>)
    ELSE value

RECURSIVE encode_value(_)
RECURSIVE dict_to_toon(_)
RECURSIVE list_to_toon(_)

encode_string(value) ==
    IF needs_quoting(value) THEN quote_string(value) ELSE value

encode_value(value) ==
    CASE value.t = "null" -> NULL_TEXT
      [] value.t = "bool" -> IF value.v THEN TRUE_TEXT ELSE FALSE_TEXT
      [] value.t = "int" -> IntToStr(value.v)
      [] value.t = "float" -> FloatToStr(value.v)
      [] value.t = "str" -> encode_string(value.v)
      [] value.t = "obj" -> <<"{">> \o dict_to_toon(value.v) \o <<"}">>
      [] value.t = "arr" -> <<"[">> \o list_to_toon(value.v) \o <<"]">>

dict_to_toon(data) ==
    join([i \in 1..Len(data) |-> data[i][1] \o <<":">> \o encode_value(data[i][2])],
         <<"|">>)

list_to_toon(data) ==
    join([i \in 1..Len(data) |-> encode_value(data[i])], <<";">>)

\* json_to_toon keeping the outermost pair of a dict or list
json_to_toon_bracketed(data) == encode_value(data)

\* json_to_toon for a dict, a list or a non-string scalar (a str argument is
\* JSON text, parsed by json.loads before this point)
json_to_toon(data) ==
    IF data.t = "obj" THEN dict_to_toon(data.v)
    ELSE IF data.t = "arr" THEN list_to_toon(data.v)
    ELSE encode_value(data)

(***************************************************************************)
(* Decoding.                                                               *)
(***************************************************************************)
SplitStart ==
    [parts |-> <<>>, current |-> <<>>, depth_brace |-> 0, depth_bracket |-> 0,
     in_quotes |-> FALSE, escape_next |-> FALSE]

\* the loop body without the quote state: a delimiter inside quotes splits
split_step_ignoring_quotes(st, char, delimiter) ==
    IF st.escape_next
    THEN [st EXCEPT !.current = Append(@, char), !.escape_next = FALSE]
    ELSE IF char = "\\"
    THEN [st EXCEPT !.current = Append(@, char), !.escape_next = TRUE]
    ELSE IF char = "{"
    THEN [st EXCEPT !.depth_brace = @ + 1, !.current = Append(@, char)]
    ELSE IF char = "}"
    THEN [st EXCEPT !.depth_brace = @ - 1, !.current = Append(@, char)]
    ELSE IF char = "["
    THEN [st EXCEPT !.depth_bracket = @ + 1, !.current = Append(@, char)]
    ELSE IF char = "]"
    THEN [st EXCEPT !.depth_bracket = @ - 1, !.current = Append(@, char)]
    ELSE IF char = delimiter /\ st.depth_brace = 0 /\ st.depth_bracket = 0
    THEN [st EXCEPT !.parts = Append(@, st.current), !.current = <<>>]
    ELSE [st EXCEPT !.current = Append(@, char)]

\* one iteration of the loop of split_toon_pairs
split_step(st, char, delimiter) ==
    IF st.escape_next
    THEN [st EXCEPT !.current = Append(@, char), !.escape_next = FALSE]
    ELSE IF char = "\\"
    THEN [st EXCEPT !.current = Append(@, char), !.escape_next = TRUE]
    ELSE IF char = "\""
    THEN [st EXCEPT !.in_quotes = ~@, !.current = Append(@, char)]
    ELSE IF st.in_quotes
    THEN [st EXCEPT !.current = Append(@, char)]
    ELSE IF char = "{"
    THEN [st EXCEPT !.depth_brace = @ + 1, !.current = Append(@, char)]
    ELSE IF char = "}"
    THEN [st EXCEPT !.depth_brace = @ - 1, !.current = Append(@, char)]
    ELSE IF char = "["
    THEN [st EXCEPT !.depth_bracket = @ + 1, !.current = Append(@, char)]
    ELSE IF char = "]"
    THEN [st EXCEPT !.depth_bracket = @ - 1, !.current = Append(@, char)]
    ELSE IF char = delimiter /\ st.depth_brace = 0 /\ st.depth_bracket = 0
    THEN [st EXCEPT !.parts = Append(@, st.current), !.current = <<>>]
    ELSE [st EXCEPT !.current = Append(@, char)]

RECURSIVE split_loop(_, _, _, _)
split_loop(toon_str, i, delimiter, st) ==
    IF i > Len(toon_str) THEN st
    ELSE split_loop(toon_str, i + 1, delimiter, split_step(st, toon_str[i], delimiter))

split_toon_pairs(toon_str, delimiter) ==
    LET st == split_loop(toon_str, 1, delimiter, SplitStart)
    IN IF st.current # <<>> THEN Append(st.parts, st.current) ELSE st.parts

\* result[key] = value on a dict kept as a sequence of pairs
dict_set(d, key, value) ==
    IF \E i \in 1..Len(d) : d[i][1] = key
    THEN [i \in 1..Len(d) |-> IF d[i][1] = key THEN <<key, value>> ELSE d[i]]
    ELSE Append(d, <<key, value>>)

RECURSIVE decode_value(_)
RECURSIVE toon_to_dict(_)
RECURSIVE toon_to_list(_)
RECURSIVE dict_loop(_, _, _)
RECURSIVE list_loop(_, _)

decode_value(raw) ==
    LET value == strip(raw) IN
    IF value = <<>> THEN VStr(<<>>)
    ELSE IF value = NULL_TEXT THEN VNull
    ELSE IF value = TRUE_TEXT THEN VBool(TRUE)
    ELSE IF value = FALSE_TEXT THEN VBool(FALSE)
    ELSE IF startswith(value, <<"\"">>) /\ endswith(value, <<"\"">>)
    THEN VStr(unquote_string(value))
    ELSE IF startswith(value, <<"{">>) /\ endswith(value, <<"}">>)
    THEN VObj(toon_to_dict(inner_slice(value)))
    ELSE IF startswith(value, <<"[">>) /\ endswith(value, <<"]">>)
    THEN VArr(toon_to_list(inner_slice(value)))
    ELSE IF contains(value, ".")
    THEN (IF IsFloatText(value) THEN ParseFloat(value) ELSE VStr(value))
    ELSE IF IsIntText(value) THEN VInt(ParseInt(value))
    ELSE VStr(value)

dict_loop(pairs, i, result) ==
    IF i > Len(pairs) THEN result
    ELSE LET pair == pairs[i] IN
         IF ~contains(pair, ":") THEN dict_loop(pairs, i + 1, result)
         ELSE LET key == strip(partition_before(pair, ":"))
                  value == partition_after(pair, ":")
              IN IF key # <<>>
                 THEN dict_loop(pairs, i + 1, dict_set(result, key, decode_value(value)))
                 ELSE dict_loop(pairs, i + 1, result)

toon_to_dict(toon_str) ==
    IF strip(toon_str) = <<>> THEN <<>>
    ELSE dict_loop(split_toon_pairs(toon_str, "|"), 1, <<>>)

list_loop(items, i) ==
    IF i > Len(items) THEN <<>>
    ELSE IF strip(items[i]) # <<>>
         THEN <<decode_value(items[i])>> \o list_loop(items, i + 1)
         ELSE list_loop(items, i + 1)

toon_to_list(toon_str) ==
    IF strip(toon_str) = <<>> THEN <<>>
    ELSE list_loop(split_toon_pairs(toon_str, ";"), 1)

\* toon_to_json without the tests for brackets and braces
toon_to_json_body_only(raw) == VObj(toon_to_dict(strip(raw)))

toon_to_json(raw) ==
    LET toon_str == strip(raw) IN
    IF startswith(toon_str, <<"[">>) /\ endswith(toon_str, <<"]">>)
    THEN VArr(toon_to_list(inner_slice(toon_str)))
    ELSE IF startswith(toon_str, <<"{">>) /\ endswith(toon_str, <<"}">>)
    THEN VObj(toon_to_dict(inner_slice(toon_str)))
    ELSE VObj(toon_to_dict(toon_str))

(***************************************************************************)
(* Decimal arithmetic: [n |-> coefficient, e |-> fractional digits] stands *)
(* for n / 10^e.  An optional value is <<>> (None) or <<value>>.           *)
(***************************************************************************)
Dec(n, e) == [n |-> n, e |-> e]

None == <<>>

Some(x) == <<x>>

Max(a, b) == IF a >= b THEN a ELSE b

\* the coefficient of d at e fractional digits (e >= d.e)
Scaled(d, e) == d.n * Pow10(e - d.e)

DecMul(a, b) == Dec(a.n * b.n, a.e + b.e)

DecAdd(a, b) == LET e == Max(a.e, b.e) IN Dec(Scaled(a, e) + Scaled(b, e), e)

DecSub(a, b) == LET e == Max(a.e, b.e) IN Dec(Scaled(a, e) - Scaled(b, e), e)

\* a / Decimal("100")
DecDiv100(a) == Dec(a.n, a.e + 2)

DecLess(a, b) == LET e == Max(a.e, b.e) IN Scaled(a, e) < Scaled(b, e)

DecEq(a, b) == LET e == Max(a.e, b.e) IN Scaled(a, e) = Scaled(b, e)

DecAbs(a) == IF a.n < 0 THEN Dec(0 - a.n, a.e) ELSE a

\* truth value of a Decimal: zero is false
DecTruthy(a) == a.n # 0

\* d.quantize(Decimal("0.01"), rounding=ROUND_DOWN)
quantize_cents_down(d) ==
    IF d.e <= 2 THEN Dec(Scaled(d, 2), 2)
    ELSE LET unit == Pow10(d.e - 2)
             mag == IF d.n < 0 THEN 0 - d.n ELSE d.n
         IN Dec((IF d.n < 0 THEN -1 ELSE 1) * (mag \div unit), 2)

\* d.quantize(Decimal("0.01"), rounding=ROUND_HALF_UP): ties away from zero
quantize_cents(d) ==
    IF d.e <= 2 THEN Dec(Scaled(d, 2), 2)
    ELSE LET unit == Pow10(d.e - 2)
             mag == IF d.n < 0 THEN 0 - d.n ELSE d.n
             q == mag \div unit
             r == mag % unit
             rounded == IF 2 * r >= unit THEN q + 1 ELSE q
         IN Dec((IF d.n < 0 THEN -1 ELSE 1) * rounded, 2)

(***************************************************************************)
(* ValidationService.                                                      *)
(***************************************************************************)
RequestStatus == {"open", "in_progress", "closed"}

\* a table in which a closed request can be reopened
VALID_STATUS_TRANSITIONS_reopening ==
    [s \in RequestStatus |->
        CASE s = "open" -> <<"in_progress", "closed">>
          [] s = "in_progress" -> <<"closed", "open">>
          [] s = "closed" -> <<"open">>]

VALID_STATUS_TRANSITIONS ==
    [s \in RequestStatus |->
        CASE s = "open" -> <<"in_progress", "closed">>
          [] s = "in_progress" -> <<"closed", "open">>
          [] s = "closed" -> <<>>]

LowerLetters ==
    <<"a", "b", "c", "d", "e", "f", "g", "h", "i", "j", "k", "l", "m",
      "n", "o", "p", "q", "r", "s", "t", "u", "v", "w", "x", "y", "z">>

UpperLetters ==
    <<"A", "B", "C", "D", "E", "F", "G", "H", "I", "J", "K", "L", "M",
      "N", "O", "P", "Q", "R", "S", "T", "U", "V", "W", "X", "Y", "Z">>

upper_char(c) ==
    IF \E i \in 1..26 : LowerLetters[i] = c
    THEN UpperLetters[CHOOSE i \in 1..26 : LowerLetters[i] = c]
    ELSE c

upper(s) == [i \in 1..Len(s) |-> upper_char(s[i])]

\* the characters \d matches in a str pattern: every Unicode decimal digit,
\* here the ASCII digits, ARABIC-INDIC DIGIT ONE and FULLWIDTH DIGIT ONE, each
\* non-ASCII character written as its code point
UnicodeDecimalDigits == DigitSet \cup {"U+0661", "U+FF11"}

\* VAT_ID_PATTERN.match: ^DE\d{9}$
VAT_ID_PATTERN(s) ==
    /\ Len(s) = 11
    /\ s[1] = "D" /\ s[2] = "E"
    /\ \A i \in 3..11 : s[i] \in UnicodeDecimalDigits

validate_vat_id(vat_id) ==
    IF vat_id = <<>> THEN <<FALSE, <<"VAT ID is required">>>>
    ELSE IF ~VAT_ID_PATTERN(upper(strip(vat_id)))
    THEN <<FALSE, <<"Invalid VAT ID format">>>>
    ELSE <<TRUE, <<>>>>

\* the line total with the result cut, not rounded, to cents
calculate_order_line_total_truncating(unit_price, amount, discount_percent) ==
    LET total == DecMul(unit_price, amount) IN
    IF discount_percent # None /\ DecTruthy(discount_percent[1])
    THEN quantize_cents_down(
             DecMul(total, DecSub(Dec(1, 0), DecDiv100(discount_percent[1]))))
    ELSE quantize_cents_down(total)

calculate_order_line_total(unit_price, amount, discount_percent) ==
    LET total == DecMul(unit_price, amount) IN
    IF discount_percent # None /\ DecTruthy(discount_percent[1])
    THEN LET discount_multiplier ==
                 DecSub(Dec(1, 0), DecDiv100(discount_percent[1]))
         IN quantize_cents(DecMul(total, discount_multiplier))
    ELSE quantize_cents(total)

RECURSIVE request_total_loop(_, _, _)
request_total_loop(order_lines_, i, total) ==
    IF i > Len(order_lines_) THEN total
    ELSE LET line == order_lines_[i] IN
         IF line.line_type = "standard"
         THEN request_total_loop(order_lines_, i + 1,
                  DecAdd(total, calculate_order_line_total(
                      line.unit_price, line.amount, line.discount_percent)))
         ELSE request_total_loop(order_lines_, i + 1, total)

RECURSIVE request_total_loop_all_types(_, _, _)
\* the loop without the test of the line type
request_total_loop_all_types(order_lines_, i, total) ==
    IF i > Len(order_lines_) THEN total
    ELSE LET line == order_lines_[i] IN
         request_total_loop_all_types(order_lines_, i + 1,
             DecAdd(total, calculate_order_line_total(
                 line.unit_price, line.amount, line.discount_percent)))

calculate_request_total_all_types(order_lines_) ==
    quantize_cents(request_total_loop_all_types(order_lines_, 1, Dec(0, 2)))

calculate_request_total(order_lines_) ==
    quantize_cents(request_total_loop(order_lines_, 1, Dec(0, 2)))

\* str(d) of a Decimal with no positive exponent, in plain notation
DecToStr(d) ==
    LET mag == IF d.n < 0 THEN 0 - d.n ELSE d.n
        whole == NatToStr(mag \div Pow10(d.e))
    IN (IF d.n < 0 THEN <<"-">> ELSE <<>>)
         \o (IF d.e = 0 THEN whole
             ELSE whole \o <<".">> \o PadLeft(NatToStr(mag % Pow10(d.e)), d.e))

\* validate_order_line_total failing also when the difference equals the
\* tolerance
validate_order_line_total_strict(unit_price, amount, provided_total, tolerance) ==
    LET calculated == calculate_order_line_total(unit_price, amount, None)
        difference == DecAbs(DecSub(calculated, provided_total))
    IN IF ~DecLess(difference, tolerance)
       THEN <<FALSE, <<"Total mismatch: expected ">> \o DecToStr(calculated)
                         \o <<", got ">> \o DecToStr(provided_total)>>
       ELSE <<TRUE, <<>>>>

validate_order_line_total(unit_price, amount, provided_total, tolerance) ==
    LET calculated == calculate_order_line_total(unit_price, amount, None)
        difference == DecAbs(DecSub(calculated, provided_total))
    IN IF DecLess(tolerance, difference)
       THEN <<FALSE, <<"Total mismatch: expected ">> \o DecToStr(calculated)
                         \o <<", got ">> \o DecToStr(provided_total)>>
       ELSE <<TRUE, <<>>>>

validate_request_total(order_lines_, provided_total, tolerance) ==
    LET calculated == calculate_request_total(order_lines_)
        difference == DecAbs(DecSub(calculated, provided_total))
    IN IF DecLess(tolerance, difference)
       THEN <<FALSE, <<"Request total mismatch: expected ">> \o DecToStr(calculated)
                         \o <<", got ">> \o DecToStr(provided_total)>>
       ELSE <<TRUE, <<>>>>

\* a validation that lets every transition pass
validate_status_transition_any(current_status, new_status) == <<TRUE, <<>>>>

validate_status_transition(current_status, new_status) ==
    IF current_status = new_status
    THEN <<FALSE, <<"already in status", new_status>>>>
    ELSE LET allowed_transitions == VALID_STATUS_TRANSITIONS[current_status] IN
         IF ~\E i \in 1..Len(allowed_transitions) : allowed_transitions[i] = new_status
         THEN <<FALSE, <<"cannot transition", current_status, new_status>>
                           \o allowed_transitions>>
         ELSE <<TRUE, <<>>>>

RECURSIVE order_line_errors_first_only(_, _)
\* the loop reporting only the first violation of each line
order_line_errors_first_only(order_lines_, i) ==
    IF i > Len(order_lines_) THEN <<>>
    ELSE LET line == order_lines_[i] IN
         (IF line.unit_price.n < 0
          THEN << <<"Unit price cannot be negative", i>> >>
          ELSE IF line.amount.n <= 0
          THEN << <<"Amount must be greater than 0", i>> >>
          ELSE IF line.description = <<>> \/ strip(line.description) = <<>>
          THEN << <<"Description is required", i>> >>
          ELSE <<>>)
         \o order_line_errors_first_only(order_lines_, i + 1)

RECURSIVE order_line_errors(_, _)
\* the loop of validate_order_lines: the messages of lines i..
order_line_errors(order_lines_, i) ==
    IF i > Len(order_lines_) THEN <<>>
    ELSE LET line == order_lines_[i] IN
         (IF line.unit_price.n < 0 THEN << <<"Unit price cannot be negative", i>> >> ELSE <<>>)
         \o (IF line.amount.n <= 0 THEN << <<"Amount must be greater than 0", i>> >> ELSE <<>>)
         \o (IF line.description = <<>> \/ strip(line.description) = <<>>
             THEN << <<"Description is required", i>> >> ELSE <<>>)
         \o order_line_errors(order_lines_, i + 1)

validate_order_lines(order_lines_) ==
    IF order_lines_ = <<>>
    THEN <<FALSE, << <<"At least one order line is required", 0>> >> >>
    ELSE LET errors == order_line_errors(order_lines_, 1)
         IN <<errors = <<>>, errors>>

validate_request_data(vat_id, order_lines_) ==
    LET vat == validate_vat_id(vat_id)
        lines == validate_order_lines(order_lines_)
        errors == (IF ~vat[1] THEN << <<vat[2][1], 0>> >> ELSE <<>>)
                    \o (IF ~lines[1] THEN lines[2] ELSE <<>>)
    IN <<errors = <<>>, errors>>

\* OrderLine.calculate_total of the ORM model
calculate_total(self) ==
    LET subtotal == DecMul(self.unit_price, self.amount) IN
    IF self.discount_amount # None /\ DecTruthy(self.discount_amount[1])
    THEN DecSub(subtotal, self.discount_amount[1])
    ELSE IF self.discount_percent # None /\ DecTruthy(self.discount_percent[1])
    THEN DecSub(subtotal, DecMul(subtotal, DecDiv100(self.discount_percent[1])))
    ELSE subtotal

(***************************************************************************)
(* The codec as a machine: an input value is encoded, the text decoded,    *)
(* the decoded value encoded again.  Mode "json" uses the entry points     *)
(* json_to_toon / toon_to_json, mode "value" uses encode_value /           *)
(* decode_value.                                                           *)
(***************************************************************************)
ToonChars == SPECIAL_CHARS \cup {"a", "1", "\\", " "}

ToonStrings ==
    UNION {[1..k -> ToonChars] : k \in 0..MaxStrLen}
        \cup {NULL_TEXT, TRUE_TEXT, FALSE_TEXT}

ToonInts == {0, 7, 10, -1}

ToonScalars ==
    {VNull, VBool(TRUE), VBool(FALSE)}
        \cup {VInt(n) : n \in ToonInts} \cup {VStr(s) : s \in ToonStrings}

ToonSingles == {VStr(<<c>>) : c \in ToonChars}

Wrap1(X) ==
    {VArr(<<x>>) : x \in X} \cup {VObj(<< <<(<<"k">>), x>> >>) : x \in X}

Wrap2(X) ==
    {VArr(<<x, y>>) : x \in X, y \in X}
        \cup {VObj(<< <<(<<"k">>), x>>, <<(<<"j">>), y>> >>) : x \in X, y \in X}

RECURSIVE Nest(_)
Nest(d) ==
    IF d <= 1
    THEN Wrap1(ToonSingles) \cup Wrap2(ToonSingles) \cup {VArr(<<>>), VObj(<<>>)}
    ELSE Nest(d - 1) \cup Wrap1(Nest(d - 1))

ToonInputs == ToonScalars \cup Wrap1(ToonScalars) \cup Nest(MaxDepth)

ToonIdle ==
    /\ toon_in = VNull
    /\ toon_mode = "none"
    /\ toon_text = <<>>
    /\ toon_out = VNull
    /\ toon_text2 = <<>>
    /\ toon_pc = "idle"

CalcIdle ==
    /\ calc_call = [op |-> "none"]
    /\ calc_result = <<>>
    /\ calc_pc = "idle"

ToonInit ==
    /\ toon_in \in ToonInputs
    /\ toon_mode \in {"json", "value"}
    /\ toon_mode = "json" => toon_in.t # "str"
    /\ toon_text = <<>>
    /\ toon_out = VNull
    /\ toon_text2 = <<>>
    /\ toon_pc = "input"

JsonToToon ==
    /\ toon_pc = "input" /\ toon_mode = "json"
    /\ toon_text' = json_to_toon(toon_in)
    /\ toon_pc' = "encoded"
    /\ UNCHANGED <<toon_in, toon_mode, toon_out, toon_text2>>
    /\ UNCHANGED <<calc_vars, svc_vars, auth_vars, offer_vars>>

EncodeValue ==
    /\ toon_pc = "input" /\ toon_mode = "value"
    /\ toon_text' = encode_value(toon_in)
    /\ toon_pc' = "encoded"
    /\ UNCHANGED <<toon_in, toon_mode, toon_out, toon_text2>>
    /\ UNCHANGED <<calc_vars, svc_vars, auth_vars, offer_vars>>

ToonToJson ==
    /\ toon_pc = "encoded" /\ toon_mode = "json"
    /\ toon_out' = toon_to_json(toon_text)
    /\ toon_pc' = "decoded"
    /\ UNCHANGED <<toon_in, toon_mode, toon_text, toon_text2>>
    /\ UNCHANGED <<calc_vars, svc_vars, auth_vars, offer_vars>>

DecodeValue ==
    /\ toon_pc = "encoded" /\ toon_mode = "value"
    /\ toon_out' = decode_value(toon_text)
    /\ toon_pc' = "decoded"
    /\ UNCHANGED <<toon_in, toon_mode, toon_text, toon_text2>>
    /\ UNCHANGED <<calc_vars, svc_vars, auth_vars, offer_vars>>

ReEncodeJson ==
    /\ toon_pc = "decoded" /\ toon_mode = "json"
    /\ toon_text2' = json_to_toon(toon_out)
    /\ toon_pc' = "reencoded"
    /\ UNCHANGED <<toon_in, toon_mode, toon_text, toon_out>>
    /\ UNCHANGED <<calc_vars, svc_vars, auth_vars, offer_vars>>

ReEncodeValue ==
    /\ toon_pc = "decoded" /\ toon_mode = "value"
    /\ toon_text2' = encode_value(toon_out)
    /\ toon_pc' = "reencoded"
    /\ UNCHANGED <<toon_in, toon_mode, toon_text, toon_out>>
    /\ UNCHANGED <<calc_vars, svc_vars, auth_vars, offer_vars>>

(***************************************************************************)
(* The engine as a machine: one call of one function, then its result.     *)
(***************************************************************************)
CalcPrices == {Dec(0, 2), Dec(1, 2), Dec(10005, 3), Dec(100, 0), Dec(3333, 2)}

CalcAmounts == {Dec(1, 0), Dec(2, 0), Dec(3, 0), Dec(5, 1)}

CalcPercents ==
    {None, Some(Dec(0, 0)), Some(Dec(50, 0)), Some(Dec(125, 1)), Some(Dec(100, 0))}

CalcDiscountAmounts == {None, Some(Dec(0, 2)), Some(Dec(30, 0))}

LineTypes == {"standard", "alternative", "optional"}

\* order lines as the schema admits them, for the functions of one line
CalcLines ==
    [line_type : {"standard"}, description : {<<"a">>},
     unit_price : CalcPrices, amount : CalcAmounts,
     discount_percent : CalcPercents, discount_amount : CalcDiscountAmounts]

\* order lines for the functions of a list of lines
RequestLines ==
    [line_type : LineTypes, description : {<<"a">>},
     unit_price : {Dec(5000, 2), Dec(100000, 2), Dec(50000, 2)},
     amount : {Dec(1, 0)},
     discount_percent : {None, Some(Dec(10, 0))}, discount_amount : {None}]

RequestLineLists == UNION {[1..k -> RequestLines] : k \in 0..MaxLines}

\* totals a caller provides for one line, and the tolerances it passes
ProvidedLineTotals ==
    {Dec(3000, 2), Dec(30005, 3), Dec(3001, 2), Dec(3002, 2), Dec(2999, 2),
     Dec(2998, 2), Dec(29985, 3), Dec(30, 0), Dec(9999, 2), Dec(0, 2)}

Tolerances == {Dec(1, 2), Dec(0, 0), Dec(5, 3)}

\* totals a caller provides for a request
ProvidedRequestTotals ==
    {Dec(5000, 2), Dec(5001, 2), Dec(5002, 2), Dec(4999, 2), Dec(95005, 3),
     Dec(95, 0), Dec(0, 2)}

\* the line lists validate_request_total is called with
TotalLineLists == {ls \in RequestLineLists : Len(ls) <= 2}

\* order lines for validate_order_lines: unit price below and above zero,
\* amount zero, below and above zero, description empty, blank and present
ValidationLines ==
    [unit_price : {Dec(-1, 2), Dec(100, 2)},
     amount : {Dec(0, 0), Dec(-1, 0), Dec(1, 0)},
     description : {<<>>, <<" ">>, <<"a">>}]

ValidationLineLists == UNION {[1..k -> ValidationLines] : k \in 0..MaxLines}

\* the nine characters after a two-letter prefix
VatNine == <<"1", "2", "3", "4", "5", "6", "7", "8", "9">>

\* VAT ids a caller passes: well-formed in either case, too short, too long,
\* another prefix, extra characters, outer and inner whitespace, non-ASCII
\* digits (U+0661, U+FF11), a superscript two (U+00B2), empty and blank
VatInputs ==
    {<<"D", "E">> \o VatNine, <<"d", "e">> \o VatNine, <<"D", "e">> \o VatNine,
     <<"D", "E">> \o SubSeq(VatNine, 1, 8), <<"D", "E">> \o VatNine \o <<"0">>,
     <<"F", "R">> \o VatNine, <<"A", "T">> \o VatNine, VatNine,
     <<"D", "E">> \o VatNine \o <<"X">>, <<"X", "D", "E">> \o VatNine,
     <<"D", "E">> \o SubSeq(VatNine, 1, 8) \o <<"A">>,
     <<" ", "D", "E">> \o VatNine, <<"d", "e">> \o VatNine \o <<"\n">>,
     <<"D", "E", " ">> \o SubSeq(VatNine, 1, 8),
     <<"D", "E">> \o [i \in 1..9 |-> "U+0661"],
     <<"D", "E">> \o SubSeq(VatNine, 1, 8) \o <<"U+FF11">>,
     <<"D", "E">> \o SubSeq(VatNine, 1, 8) \o <<"U+00B2">>,
     <<>>, <<" ">>, <<"D", "E">>}

CalcCalls ==
    [op : {"calculate_order_line_total", "calculate_total"}, line : CalcLines]
        \cup [op : {"calculate_request_total"}, order_lines : RequestLineLists]
        \cup [op : {"validate_status_transition"},
              current_status : RequestStatus, new_status : RequestStatus]
        \cup [op : {"validate_vat_id"}, vat_id : VatInputs]
        \cup [op : {"validate_order_lines"}, order_lines : ValidationLineLists]
        \cup [op : {"validate_request_data"},
              vat_id : {<<"D", "E">> \o VatNine, <<"D", "E">>, <<>>},
              order_lines : {ls \in ValidationLineLists : Len(ls) <= 1}]
        \cup [op : {"validate_order_line_total"},
              unit_price : {Dec(10, 0), Dec(10005, 3), Dec(3333, 2)},
              amount : {Dec(3, 0), Dec(5, 1)},
              provided_total : ProvidedLineTotals, tolerance : Tolerances]
        \cup [op : {"validate_request_total"}, order_lines : TotalLineLists,
              provided_total : ProvidedRequestTotals, tolerance : Tolerances]

CalcInit ==
    /\ calc_call \in CalcCalls
    /\ calc_result = <<>>
    /\ calc_pc = "call"

CalculateOrderLineTotal ==
    /\ calc_pc = "call" /\ calc_call.op = "calculate_order_line_total"
    /\ calc_result' = calculate_order_line_total(
           calc_call.line.unit_price, calc_call.line.amount,
           calc_call.line.discount_percent)
    /\ calc_pc' = "done"
    /\ UNCHANGED <<calc_call, toon_vars, svc_vars, auth_vars, offer_vars>>

CalculateTotal ==
    /\ calc_pc = "call" /\ calc_call.op = "calculate_total"
    /\ calc_result' = calculate_total(calc_call.line)
    /\ calc_pc' = "done"
    /\ UNCHANGED <<calc_call, toon_vars, svc_vars, auth_vars, offer_vars>>

CalculateRequestTotal ==
    /\ calc_pc = "call" /\ calc_call.op = "calculate_request_total"
    /\ calc_result' = calculate_request_total(calc_call.order_lines)
    /\ calc_pc' = "done"
    /\ UNCHANGED <<calc_call, toon_vars, svc_vars, auth_vars, offer_vars>>

ValidateStatusTransition ==
    /\ calc_pc = "call" /\ calc_call.op = "validate_status_transition"
    /\ calc_result' = validate_status_transition(
           calc_call.current_status, calc_call.new_status)
    /\ calc_pc' = "done"
    /\ UNCHANGED <<calc_call, toon_vars, svc_vars, auth_vars, offer_vars>>

ValidateOrderLineTotal ==
    /\ calc_pc = "call" /\ calc_call.op = "validate_order_line_total"
    /\ calc_result' = validate_order_line_total(
           calc_call.unit_price, calc_call.amount,
           calc_call.provided_total, calc_call.tolerance)
    /\ calc_pc' = "done"
    /\ UNCHANGED <<calc_call, toon_vars, svc_vars, auth_vars, offer_vars>>

ValidateRequestTotal ==
    /\ calc_pc = "call" /\ calc_call.op = "validate_request_total"
    /\ calc_result' = validate_request_total(
           calc_call.order_lines, calc_call.provided_total, calc_call.tolerance)
    /\ calc_pc' = "done"
    /\ UNCHANGED <<calc_call, toon_vars, svc_vars, auth_vars, offer_vars>>

ValidateVatId ==
    /\ calc_pc = "call" /\ calc_call.op = "validate_vat_id"
    /\ calc_result' = validate_vat_id(calc_call.vat_id)
    /\ calc_pc' = "done"
    /\ UNCHANGED <<calc_call, toon_vars, svc_vars, auth_vars, offer_vars>>

ValidateOrderLines ==
    /\ calc_pc = "call" /\ calc_call.op = "validate_order_lines"
    /\ calc_result' = validate_order_lines(calc_call.order_lines)
    /\ calc_pc' = "done"
    /\ UNCHANGED <<calc_call, toon_vars, svc_vars, auth_vars, offer_vars>>

ValidateRequestData ==
    /\ calc_pc = "call" /\ calc_call.op = "validate_request_data"
    /\ calc_result' = validate_request_data(calc_call.vat_id, calc_call.order_lines)
    /\ calc_pc' = "done"
    /\ UNCHANGED <<calc_call, toon_vars, svc_vars, auth_vars, offer_vars>>

CalcNext ==
    \/ CalculateOrderLineTotal
    \/ CalculateTotal
    \/ CalculateRequestTotal
    \/ ValidateStatusTransition
    \/ ValidateOrderLineTotal
    \/ ValidateRequestTotal
    \/ ValidateVatId
    \/ ValidateOrderLines
    \/ ValidateRequestData

(***************************************************************************)
(* RequestService over the database session.  requests maps the id of a    *)
(* stored request to its row, order_lines and status_history map it to the *)
(* rows of its relationships in insertion order, request_ids holds the ids *)
(* uuid4 has issued, now is the value datetime.utcnow() returns, outcome   *)
(* is the call made in the last step: its operation, caller, request and   *)
(* the exception it raised.  The rows keep the columns the service writes  *)
(* and updated_at; of the text columns set alike (title, vendor_name,      *)
(* department, notes) they keep title.                                     *)
(***************************************************************************)
UserRole == {"requestor", "procurement_team"}

Users ==
    {[id |-> "alice", role |-> "requestor"],
     [id |-> "pat", role |-> "procurement_team"]}

CommodityGroups == {"cg1"}

NoCall ==
    [op |-> "none", user_id |-> "", request_id |-> 0, error |-> "none",
     args |-> <<>>, result |-> <<>>]

db_add(table, id, row) ==
    [k \in DOMAIN table \cup {id} |-> IF k = id THEN row ELSE table[k]]

db_delete(table, id) == [k \in DOMAIN table \ {id} |-> table[k]]

RECURSIVE count_rows(_, _)
\* the number of rows the relationships of the requests in ids hold together
count_rows(table, ids) ==
    IF ids = {} THEN 0
    ELSE LET id == CHOOSE k \in ids : TRUE
         IN Len(table[id]) + count_rows(table, ids \ {id})

\* the status_history table has room for another row
HistoryRoom == count_rows(status_history, DOMAIN status_history) < MaxHistory

\* an exception leaves the session uncommitted
Raise(op, user_id, request_id, error) ==
    /\ outcome' = [op |-> op, user_id |-> user_id, request_id |-> request_id,
                   error |-> error, args |-> <<>>, result |-> <<>>]
    /\ UNCHANGED <<requests, order_lines, status_history, request_ids, now>>

Return(op, user_id, request_id) ==
    outcome' = [op |-> op, user_id |-> user_id, request_id |-> request_id,
                error |-> "none", args |-> <<>>, result |-> <<>>]

create_request(user_id, data) ==
    LET valid == validate_request_data(data.vat_id, data.order_lines)
        id == Cardinality(request_ids) + 1
    IN IF ~valid[1]
       THEN Raise("create_request", user_id, 0, "ValidationError")
       ELSE IF data.commodity_group_id # None
                 /\ data.commodity_group_id[1] \notin CommodityGroups
       THEN Raise("create_request", user_id, 0, "ValidationError")
       ELSE LET total_cost == calculate_request_total(data.order_lines)
                request == [user_id |-> user_id,
                            title |-> data.title,
                            vat_id |-> upper(data.vat_id),
                            commodity_group_id |-> data.commodity_group_id,
                            total_cost |-> total_cost,
                            status |-> "open",
                            updated_at |-> now]
                order_line(line_data) ==
                    [line_type |-> "standard",
                     description |-> line_data.description,
                     unit_price |-> line_data.unit_price,
                     amount |-> line_data.amount,
                     discount_percent |-> None,
                     discount_amount |-> None,
                     total_price |-> calculate_order_line_total(
                         line_data.unit_price, line_data.amount, None)]
                entry == [status |-> "open", changed_by_user_id |-> user_id,
                          notes |-> <<"Request created">>]
            IN /\ Cardinality(request_ids) < MaxRequests
               /\ HistoryRoom
               /\ request_ids' = request_ids \cup {id}
               /\ requests' = db_add(requests, id, request)
               /\ order_lines' = db_add(order_lines, id,
                      [i \in 1..Len(data.order_lines) |-> order_line(data.order_lines[i])])
               /\ status_history' = db_add(status_history, id, <<entry>>)
               /\ Return("create_request", user_id, id)
               /\ UNCHANGED now

\* get_request without the test that a requestor reads its own request
get_request_any_user(request_id, user_id, user_role) ==
    IF request_id \notin DOMAIN requests THEN "RequestNotFoundError" ELSE "none"

\* the exception get_request raises, "none" when it returns the request
get_request(request_id, user_id, user_role) ==
    IF request_id \notin DOMAIN requests THEN "RequestNotFoundError"
    ELSE IF user_role = "requestor" /\ requests[request_id].user_id # user_id
    THEN "PermissionDeniedError"
    ELSE "none"

\* update_request without the test that the caller owns the request
update_request_any_user(request_id, user_id, user_role, data) ==
    LET found == get_request(request_id, user_id, user_role) IN
    IF found # "none" THEN Raise("update_request", user_id, request_id, found)
    ELSE LET request == requests[request_id] IN
    IF request.status = "closed"
    THEN Raise("update_request", user_id, request_id, "PermissionDeniedError")
    ELSE IF data.vat_id # None /\ data.vat_id[1] # <<>>
              /\ ~validate_vat_id(data.vat_id[1])[1]
    THEN Raise("update_request", user_id, request_id, "ValidationError")
    ELSE IF data.commodity_group_id # None
              /\ data.commodity_group_id[1] \notin CommodityGroups
    THEN Raise("update_request", user_id, request_id, "ValidationError")
    ELSE /\ requests' = [requests EXCEPT ![request_id] =
                [request EXCEPT
                    !.title = IF data.title # None THEN data.title[1] ELSE @,
                    !.vat_id = IF data.vat_id # None THEN upper(data.vat_id[1]) ELSE @,
                    !.commodity_group_id =
                        IF data.commodity_group_id # None
                        THEN data.commodity_group_id ELSE @,
                    !.updated_at = now]]
         /\ Return("update_request", user_id, request_id)
         /\ UNCHANGED <<order_lines, status_history, request_ids, now>>

update_request(request_id, user_id, user_role, data) ==
    LET found == get_request(request_id, user_id, user_role) IN
    IF found # "none" THEN Raise("update_request", user_id, request_id, found)
    ELSE LET request == requests[request_id] IN
    IF request.user_id # user_id
    THEN Raise("update_request", user_id, request_id, "PermissionDeniedError")
    ELSE IF request.status = "closed"
    THEN Raise("update_request", user_id, request_id, "PermissionDeniedError")
    ELSE IF data.vat_id # None /\ data.vat_id[1] # <<>>
              /\ ~validate_vat_id(data.vat_id[1])[1]
    THEN Raise("update_request", user_id, request_id, "ValidationError")
    ELSE IF data.commodity_group_id # None
              /\ data.commodity_group_id[1] \notin CommodityGroups
    THEN Raise("update_request", user_id, request_id, "ValidationError")
    ELSE /\ requests' = [requests EXCEPT ![request_id] =
                [request EXCEPT
                    !.title = IF data.title # None THEN data.title[1] ELSE @,
                    !.vat_id = IF data.vat_id # None THEN upper(data.vat_id[1]) ELSE @,
                    !.commodity_group_id =
                        IF data.commodity_group_id # None
                        THEN data.commodity_group_id ELSE @,
                    !.updated_at = now]]
         /\ Return("update_request", user_id, request_id)
         /\ UNCHANGED <<order_lines, status_history, request_ids, now>>

\* update_request_status writing updated_at before it validates the
\* transition
\* a read returns result and leaves the session as it is
ReturnResult(op, user_id, request_id, args, result) ==
    /\ outcome' = [op |-> op, user_id |-> user_id, request_id |-> request_id,
                   error |-> "none", args |-> args, result |-> result]
    /\ UNCHANGED <<requests, order_lines, status_history, request_ids, now>>

\* RequestService.get_request as a call: the row, or the exception
get_request_call(request_id, user_id, user_role) ==
    LET found == get_request(request_id, user_id, user_role) IN
    IF found # "none" THEN Raise("get_request", user_id, request_id, found)
    ELSE ReturnResult("get_request", user_id, request_id, <<>>, requests[request_id])

RECURSIVE Reverse(_)
Reverse(seq) == IF seq = <<>> THEN <<>> ELSE Append(Reverse(Tail(seq)), Head(seq))

\* the entries of the request, latest first (entries are inserted in the
\* order of their changed_at)
get_status_history(request_id, user_id, user_role) ==
    LET found == get_request(request_id, user_id, user_role) IN
    IF found # "none" THEN Raise("get_status_history", user_id, request_id, found)
    ELSE ReturnResult("get_status_history", user_id, request_id, <<>>,
                      Reverse(status_history[request_id]))

\* list_requests with the status and requestor filters, the other filters
\* left at None and the first page holding every row: the ids of the rows
\* returned and the total
list_requests(user_id, user_role, status_filter, requestor_id) ==
    LET own == {id \in DOMAIN requests :
                   user_role = "requestor" => requests[id].user_id = user_id}
        of_status == {id \in own :
                         status_filter # None
                             => requests[id].status = status_filter[1]}
        of_requestor == {id \in of_status :
                            (requestor_id # None /\ user_role = "procurement_team")
                                => requests[id].user_id = requestor_id[1]}
    IN ReturnResult("list_requests", user_id, 0,
                    [status_filter |-> status_filter, requestor_id |-> requestor_id],
                    [requests |-> of_requestor, total |-> Cardinality(of_requestor)])

update_request_status_touching(request_id, user_id, user_role, data) ==
    IF request_id \notin DOMAIN requests
    THEN Raise("update_request_status", user_id, request_id, "RequestNotFoundError")
    ELSE IF user_role # "procurement_team"
    THEN Raise("update_request_status", user_id, request_id, "PermissionDeniedError")
    ELSE LET request == requests[request_id]
             valid == validate_status_transition(request.status, data.status)
         IN IF ~valid[1]
            THEN /\ requests' = [requests EXCEPT ![request_id].updated_at = now]
                 /\ outcome' = [op |-> "update_request_status", user_id |-> user_id,
                                request_id |-> request_id,
                                error |-> "InvalidStatusTransitionError",
                                args |-> <<>>, result |-> <<>>]
                 /\ UNCHANGED <<order_lines, status_history, request_ids, now>>
            ELSE /\ HistoryRoom
                 /\ requests' = [requests EXCEPT ![request_id] =
                        [request EXCEPT !.status = data.status,
                                        !.updated_at = now]]
                 /\ status_history' = [status_history EXCEPT ![request_id] =
                        Append(@, [status |-> data.status,
                                   changed_by_user_id |-> user_id,
                                   notes |-> <<"Status changed", request.status,
                                               data.status>>])]
                 /\ Return("update_request_status", user_id, request_id)
                 /\ UNCHANGED <<order_lines, request_ids, now>>

\* update_request_status without the test of the caller's role
update_request_status_any_role(request_id, user_id, user_role, data) ==
    IF request_id \notin DOMAIN requests
    THEN Raise("update_request_status", user_id, request_id, "RequestNotFoundError")
    ELSE LET request == requests[request_id]
             valid == validate_status_transition(request.status, data.status)
         IN IF ~valid[1]
            THEN Raise("update_request_status", user_id, request_id,
                       "InvalidStatusTransitionError")
            ELSE /\ HistoryRoom
                 /\ requests' = [requests EXCEPT ![request_id] =
                        [request EXCEPT !.status = data.status,
                                        !.updated_at = now]]
                 /\ status_history' = [status_history EXCEPT ![request_id] =
                        Append(@, [status |-> data.status,
                                   changed_by_user_id |-> user_id,
                                   notes |-> <<"Status changed", request.status,
                                               data.status>>])]
                 /\ Return("update_request_status", user_id, request_id)
                 /\ UNCHANGED <<order_lines, request_ids, now>>

update_request_status(request_id, user_id, user_role, data) ==
    IF request_id \notin DOMAIN requests
    THEN Raise("update_request_status", user_id, request_id, "RequestNotFoundError")
    ELSE IF user_role # "procurement_team"
    THEN Raise("update_request_status", user_id, request_id, "PermissionDeniedError")
    ELSE LET request == requests[request_id]
             valid == validate_status_transition(request.status, data.status)
         IN IF ~valid[1]
            THEN Raise("update_request_status", user_id, request_id,
                       "InvalidStatusTransitionError")
            ELSE LET old_status == request.status
                     entry == [status |-> data.status,
                               changed_by_user_id |-> user_id,
                               notes |-> IF data.notes # None /\ data.notes[1] # <<>>
                                         THEN data.notes[1]
                                         ELSE <<"Status changed", old_status, data.status>>]
                 IN /\ HistoryRoom
                    /\ requests' = [requests EXCEPT ![request_id] =
                           [request EXCEPT !.status = data.status,
                                           !.updated_at = now]]
                    /\ status_history' = [status_history EXCEPT ![request_id] =
                           Append(@, entry)]
                    /\ Return("update_request_status", user_id, request_id)
                    /\ UNCHANGED <<order_lines, request_ids, now>>

\* delete_request without the test of the status
delete_request_any_status(request_id, user_id, user_role) ==
    LET found == get_request(request_id, user_id, user_role) IN
    IF found # "none" THEN Raise("delete_request", user_id, request_id, found)
    ELSE IF requests[request_id].user_id # user_id /\ user_role # "procurement_team"
    THEN Raise("delete_request", user_id, request_id, "PermissionDeniedError")
    ELSE /\ requests' = db_delete(requests, request_id)
         /\ order_lines' = db_delete(order_lines, request_id)
         /\ status_history' = db_delete(status_history, request_id)
         /\ Return("delete_request", user_id, request_id)
         /\ UNCHANGED <<request_ids, now>>

delete_request(request_id, user_id, user_role) ==
    LET found == get_request(request_id, user_id, user_role) IN
    IF found # "none" THEN Raise("delete_request", user_id, request_id, found)
    ELSE LET request == requests[request_id] IN
    IF request.user_id # user_id /\ user_role # "procurement_team"
    THEN Raise("delete_request", user_id, request_id, "PermissionDeniedError")
    ELSE IF request.status # "open"
    THEN Raise("delete_request", user_id, request_id, "PermissionDeniedError")
    ELSE /\ requests' = db_delete(requests, request_id)
         /\ order_lines' = db_delete(order_lines, request_id)
         /\ status_history' = db_delete(status_history, request_id)
         /\ Return("delete_request", user_id, request_id)
         /\ UNCHANGED <<request_ids, now>>

\* add_procurement_note writing OPEN, not the current status, into its entry
add_procurement_note_as_open(request_id, user_id, notes) ==
    IF request_id \notin DOMAIN requests
    THEN Raise("add_procurement_note", user_id, request_id, "RequestNotFoundError")
    ELSE /\ HistoryRoom
         /\ status_history' = [status_history EXCEPT ![request_id] =
                Append(@, [status |-> "open", changed_by_user_id |-> user_id,
                           notes |-> notes])]
         /\ requests' = [requests EXCEPT ![request_id].updated_at = now]
         /\ Return("add_procurement_note", user_id, request_id)
         /\ UNCHANGED <<order_lines, request_ids, now>>

add_procurement_note(request_id, user_id, notes) ==
    IF request_id \notin DOMAIN requests
    THEN Raise("add_procurement_note", user_id, request_id, "RequestNotFoundError")
    ELSE LET request == requests[request_id]
             entry == [status |-> request.status,
                       changed_by_user_id |-> user_id,
                       notes |-> notes]
         IN /\ HistoryRoom
            /\ status_history' = [status_history EXCEPT ![request_id] =
                   Append(@, entry)]
            /\ requests' = [requests EXCEPT ![request_id].updated_at = now]
            /\ Return("add_procurement_note", user_id, request_id)
            /\ UNCHANGED <<order_lines, request_ids, now>>

SvcIdle ==
    /\ requests = <<>>
    /\ order_lines = <<>>
    /\ status_history = <<>>
    /\ request_ids = {}
    /\ now = 0
    /\ outcome = NoCall

(***************************************************************************)
(* Authentication (app/auth): registration, login with account lockout,    *)
(* logout and the get_current_user dependency.                             *)
(*                                                                         *)
(* The clock counts ticks of 1 / TicksPerSecond of a second, so that       *)
(* datetime differences keep a fraction of a second.  The settings of      *)
(* app/config.py are configurable; the model runs a small configuration    *)
(* of them, with a minute of SecondsPerMinute seconds.  users is the users *)
(* table, login_attempts the login_attempts table in insertion order,      *)
(* token_blacklist the set of revoked token ids.  An access token is the   *)
(* record of its claims; issued_tokens and logged_out remember the tokens  *)
(* that login and register returned and those a logout answered with 200.  *)
(***************************************************************************)
TicksPerSecond == 2
SecondsPerMinute == 2
MaxClock == 5
MaxUsers == 2
MaxAttempts == 3
MaxTokens == 2

MAX_LOGIN_ATTEMPTS == 2
LOCKOUT_DURATION_MINUTES == 1
LOCKOUT_WINDOW_MINUTES == 1
JWT_ACCESS_TOKEN_EXPIRE_MINUTES == 1

\* timedelta(minutes = m) in ticks
timedelta_minutes(m) == m * SecondsPerMinute * TicksPerSecond

\* int(x) of a non-negative number of seconds given in ticks, and the whole
\* seconds of a timestamp as a JWT numeric date carries them
int_seconds(ticks) == ticks \div TicksPerSecond

Emails == {"a@x", "A@x", "b@x"}

\* str.lower of an email
email_lower(email) == IF email = "A@x" THEN "a@x" ELSE email

StrongPassword == <<"P", "a", "s", "s", "w", "o", "r", "d", "1">>
OtherPassword == <<"S", "e", "c", "r", "e", "t", "4", "2", "x">>
NoDigitPassword == <<"P", "a", "s", "s", "w", "o", "r", "d", "s">>
ShortPassword == <<"P", "w", "1">>

\* c.isupper(), c.islower() and c.isdigit() of a character
isupper(c) == \E k \in 1..Len(UpperLetters) : UpperLetters[k] = c
islower(c) == \E k \in 1..Len(LowerLetters) : LowerLetters[k] = c
isdigit(c) == c \in UnicodeDecimalDigits

validate_password_strength(password) ==
    IF Len(password) < 8
    THEN <<FALSE, <<"Password must be at least 8 characters long">> >>
    ELSE IF ~\E i \in 1..Len(password) : isupper(password[i])
    THEN <<FALSE, <<"Password must contain at least one uppercase letter">> >>
    ELSE IF ~\E i \in 1..Len(password) : islower(password[i])
    THEN <<FALSE, <<"Password must contain at least one lowercase letter">> >>
    ELSE IF ~\E i \in 1..Len(password) : isdigit(password[i])
    THEN <<FALSE, <<"Password must contain at least one digit">> >>
    ELSE <<TRUE, <<>> >>

\* bcrypt: the hash is checked against the password it was made from
hash_password(password) == [bcrypt |-> password]

verify_password(plain_password, hashed_password) ==
    hashed_password.bcrypt = plain_password

\* the claims create_access_token encodes; exp and iat are numeric dates
create_access_token(user_id, email, role, utcnow) ==
    [sub |-> user_id,
     email |-> email,
     role |-> role,
     exp |-> int_seconds(utcnow + timedelta_minutes(JWT_ACCESS_TOKEN_EXPIRE_MINUTES)),
     iat |-> int_seconds(utcnow)]

\* a token this service did not sign
GarbageToken == [signature |-> "invalid"]

\* jwt.decode: the claims of a token this service signed whose exp is not
\* before the current second; None for anything else
decode_token(token, utcnow) ==
    IF "signature" \in DOMAIN token THEN <<>>
    ELSE IF token.exp < int_seconds(utcnow) THEN <<>>
    ELSE <<token>>

\* payload.get(key)
payload_get(payload, key) ==
    IF key \in DOMAIN payload THEN <<payload[key]>> ELSE <<>>

is_token_blacklisted(blacklist, token_jti) ==
    \E row \in blacklist : row.token_jti = token_jti

\* db.query(User).filter(User.email == email).first()
user_by_email(table, email) ==
    IF \E i \in 1..Len(table) : table[i].email = email
    THEN <<table[CHOOSE i \in 1..Len(table) : table[i].email = email]>>
    ELSE <<>>

\* db.query(User).filter(User.id == user_id).first()
user_by_id(table, user_id) ==
    IF \E i \in 1..Len(table) : table[i].id = user_id
    THEN <<table[CHOOSE i \in 1..Len(table) : table[i].id = user_id]>>
    ELSE <<>>

\* the failed rows of an email in the login_attempts table
failed_rows(attempts, email) ==
    {i \in 1..Len(attempts) :
        attempts[i].email = email_lower(email) /\ attempts[i].success = FALSE}

get_recent_failed_attempts(attempts, utcnow, email) ==
    LET window_start == utcnow - timedelta_minutes(LOCKOUT_WINDOW_MINUTES)
    IN  Cardinality({i \in failed_rows(attempts, email) :
                        attempts[i].attempted_at >= window_start})

get_lockout_remaining_seconds(attempts, utcnow, email) ==
    LET failed_count == get_recent_failed_attempts(attempts, utcnow, email)
        rows == failed_rows(attempts, email)
    IN  IF failed_count < MAX_LOGIN_ATTEMPTS THEN 0
        ELSE IF rows = {} THEN 0
        ELSE LET latest == CHOOSE i \in rows :
                               \A j \in rows :
                                   attempts[j].attempted_at <= attempts[i].attempted_at
                 lockout_end == attempts[latest].attempted_at
                                    + timedelta_minutes(LOCKOUT_DURATION_MINUTES)
                 remaining == lockout_end - utcnow
             IN  IF remaining <= 0 THEN 0 ELSE int_seconds(remaining)

is_account_locked(attempts, utcnow, email) ==
    LET remaining == get_lockout_remaining_seconds(attempts, utcnow, email)
    IN  IF remaining > 0 THEN <<TRUE, <<remaining>> >> ELSE <<FALSE, <<>> >>

\* the login_attempts table after record_login_attempt
record_login_attempt(attempts, utcnow, email, success) ==
    IF success
    THEN SelectSeq(attempts,
             LAMBDA row : ~(row.email = email_lower(email) /\ row.success = FALSE))
    ELSE Append(attempts, [email |-> email_lower(email),
                           attempted_at |-> utcnow,
                           success |-> FALSE])

NoAuthCall ==
    [op |-> "none", email |-> "", token |-> <<>>, status |-> 0, detail |-> "",
     password_checked |-> FALSE]

\* the response of an endpoint; token is the token presented or returned
NoToken == [signature |-> "none"]

Respond(op, email, token, status_code, detail, password_checked) ==
    auth_outcome' = [op |-> op, email |-> email, token |-> <<token>>,
                     status |-> status_code, detail |-> detail,
                     password_checked |-> password_checked]

register(email, password, role) ==
    LET strength == validate_password_strength(password)
        new_user == [id |-> Len(users) + 1, email |-> email,
                     hashed_password |-> hash_password(password),
                     role |-> role, is_active |-> TRUE]
        access_token == create_access_token(new_user.id, new_user.email,
                                            new_user.role, clock)
    IN  IF ~strength[1]
        THEN /\ Respond("register", email, NoToken, 400, strength[2][1], FALSE)
             /\ UNCHANGED <<users, issued_tokens>>
        ELSE IF user_by_email(users, email) # <<>>
        THEN /\ Respond("register", email, NoToken, 400, "Email already registered", FALSE)
             /\ UNCHANGED <<users, issued_tokens>>
        ELSE /\ users' = Append(users, new_user)
             /\ issued_tokens' = issued_tokens \cup {access_token}
             /\ Respond("register", email, access_token, 201, "", FALSE)

login(email, password) ==
    LET locked == is_account_locked(login_attempts, clock, email)
        user == user_by_email(users, email)
    IN  IF locked[1]
        THEN /\ Respond("login", email, NoToken, 429,
                        "Account temporarily locked due to too many failed attempts.",
                        FALSE)
             /\ UNCHANGED <<login_attempts, issued_tokens>>
        ELSE IF user = <<>> \/ ~verify_password(password, user[1].hashed_password)
        THEN /\ login_attempts' =
                    record_login_attempt(login_attempts, clock, email, FALSE)
             /\ Respond("login", email, NoToken, 401, "Incorrect email or password",
                        user # <<>>)
             /\ UNCHANGED issued_tokens
        ELSE IF ~user[1].is_active
        THEN /\ Respond("login", email, NoToken, 403, "User account is inactive", TRUE)
             /\ UNCHANGED <<login_attempts, issued_tokens>>
        ELSE LET access_token == create_access_token(user[1].id, user[1].email,
                                                     user[1].role, clock)
             IN  /\ login_attempts' =
                        record_login_attempt(login_attempts, clock, email, TRUE)
                 /\ issued_tokens' = issued_tokens \cup {access_token}
                 /\ Respond("login", email, access_token, 200, "", TRUE)

logout(token) ==
    LET payload == decode_token(token, clock)
    IN  IF payload = <<>>
        THEN /\ Respond("logout", "", token, 401, "Invalid token", FALSE)
             /\ UNCHANGED <<token_blacklist, logged_out>>
        ELSE LET token_jti == payload_get(payload[1], "jti")
                 user_id == payload_get(payload[1], "sub")
                 exp_timestamp == payload_get(payload[1], "exp")
             IN  IF token_jti = <<>>
                 THEN /\ Respond("logout", "", token, 200,
                                 "Logged out successfully (token will expire naturally)",
                                 FALSE)
                      /\ logged_out' = logged_out \cup {token}
                      /\ UNCHANGED token_blacklist
                 ELSE IF is_token_blacklisted(token_blacklist, token_jti[1])
                 THEN /\ Respond("logout", "", token, 200, "Already logged out",
                                 FALSE)
                      /\ logged_out' = logged_out \cup {token}
                      /\ UNCHANGED token_blacklist
                 ELSE /\ token_blacklist' = token_blacklist \cup
                             {[token_jti |-> token_jti[1], user_id |-> user_id,
                               expires_at |-> exp_timestamp]}
                      /\ logged_out' = logged_out \cup {token}
                      /\ Respond("logout", "", token, 200,
                                 "Logged out successfully", FALSE)

get_current_user(token) ==
    LET payload == decode_token(token, clock)
    IN  IF payload = <<>>
        THEN Respond("get_current_user", "", token, 401,
                     "Could not validate credentials", FALSE)
        ELSE LET user_id_str == payload_get(payload[1], "sub")
                 token_jti == payload_get(payload[1], "jti")
             IN  IF user_id_str = <<>>
                 THEN Respond("get_current_user", "", token, 401,
                              "Could not validate credentials", FALSE)
                 ELSE IF /\ token_jti # <<>>
                         /\ is_token_blacklisted(token_blacklist, token_jti[1])
                 THEN Respond("get_current_user", "", token, 401,
                              "Token has been revoked", FALSE)
                 ELSE LET user == user_by_id(users, user_id_str[1])
                      IN  IF user = <<>>
                          THEN Respond("get_current_user", "", token, 401,
                                       "Could not validate credentials", FALSE)
                          ELSE IF ~user[1].is_active
                          THEN Respond("get_current_user", "", token, 403,
                                       "Inactive user account", FALSE)
                          ELSE Respond("get_current_user", user[1].email, token,
                                       200, "", FALSE)

AuthIdle ==
    /\ users = <<>>
    /\ login_attempts = <<>>
    /\ token_blacklist = {}
    /\ issued_tokens = {}
    /\ logged_out = {}
    /\ clock = 0
    /\ auth_outcome = NoAuthCall

(***************************************************************************)
(* Offer parsing (app/services/offer_parsing.py).  An answer of the LLM is *)
(* either an exception of the call or a text; a text is kept with the      *)
(* value json.loads gives for it (Malformed when it raises                 *)
(* JSONDecodeError), json.loads being the standard library's.  The texts   *)
(* use whole words as characters for the keys.                             *)
(***************************************************************************)
Malformed == [t |-> "malformed", v |-> <<>>]

LLMText(text, json) == [kind |-> "text", text |-> text, json |-> json]
LLMError(message) == [kind |-> "error", text |-> <<>>, json |-> Malformed,
                      message |-> message]

ToonOfferText ==
    <<"order_lines", ":", "[", "{", "description", ":", "a", "}", "]">>
\* three backquotes, each written as the character "BACKQUOTE"
FENCE == <<"BACKQUOTE", "BACKQUOTE", "BACKQUOTE">>

OneLineOffer ==
    VObj(<< <<<<"order_lines">>,
              VArr(<< VObj(<< <<<<"description">>, VStr(<<"a">>)>> >>) >>)>> >>)

LLMAnswers ==
    { LLMText(ToonOfferText, Malformed),
      LLMText(FENCE \o <<"\n">> \o ToonOfferText \o <<"\n">> \o FENCE, Malformed),
      LLMText(<<"i", "n", "v", "a", "l", "i", "d", " ", "t", "o", "o", "n">>,
              Malformed),
      LLMText(<<"vendor_name", ":", "a">>, Malformed),
      LLMText(<<"[", "a", ";", "b", "]">>, Malformed),
      LLMText(<<"order_lines", ":", "5">>, Malformed),
      LLMText(<<"{", "\"", "order_lines", "\"", ":", "[", "{", "\"",
                "description", "\"", ":", "\"", "a", "\"", "}", "]", "}">>,
              OneLineOffer),
      LLMText(<<"{", "\"", "vendor_name", "\"", ":", "\"", "a", "\"", "}">>,
              VObj(<< <<<<"vendor_name">>, VStr(<<"a">>)>> >>)),
      LLMText(<<"[", "1", "]">>, VArr(<<VInt(1)>>)),
      LLMError("Rate limit exceeded"),
      LLMError("Connection reset") }

\* the outcome of a call: the value returned, or the exception raised
Returned(value) == [exc |-> "none", value |-> value, message |-> ""]
Raised(exc, message) == [exc |-> exc, value |-> <<>>, message |-> message]

\* "api" in m or "openai" in m or "rate" in m, for the lower-cased message m
\* of the exceptions that occur
mentions_api(message) == message = "Rate limit exceeded"

\* response.split("\n")
RECURSIVE split_lines(_)
split_lines(response) ==
    IF ~contains(response, "\n") THEN <<response>>
    ELSE LET i == CHOOSE k \in 1..Len(response) :
                      response[k] = "\n" /\ \A j \in 1..(k - 1) : response[j] # "\n"
         IN  <<SubSeq(response, 1, i - 1)>>
                 \o split_lines(SubSeq(response, i + 1, Len(response)))

\* the response without its markdown code block
strip_code_block(response) ==
    IF startswith(response, FENCE)
    THEN LET lines == split_lines(response)
         IN  join(IF lines[Len(lines)] = FENCE
                  THEN SubSeq(lines, 2, Len(lines) - 1)
                  ELSE SubSeq(lines, 2, Len(lines)),
                  <<"\n">>)
    ELSE response

_call_llm(answer) ==
    IF answer.kind = "error" THEN Raised("Exception", answer.message)
    ELSE Returned(answer)

_parse_toon_response(response) ==
    Returned(toon_to_json(strip_code_block(strip(response.text))))

_parse_json_response(response) ==
    IF response.json = Malformed THEN Raised("ValueError", "Invalid JSON format")
    ELSE Returned(response.json)

\* data.get(key, default) of a dict
data_get(data, key, default) ==
    IF \E i \in 1..Len(data.v) : data.v[i][1] = key
    THEN data.v[CHOOSE i \in 1..Len(data.v) : data.v[i][1] = key][2]
    ELSE default

\* Python truth of a value
truthy(value) ==
    CASE value.t = "null" -> FALSE
      [] value.t = "bool" -> value.v
      [] value.t = "int" -> value.v # 0
      [] value.t = "float" -> value.v[2] # 0
      [] OTHER -> value.v # <<>>

\* the loop body of _validate_and_convert: TRUE when the line gives a
\* ParsedOrderLine, FALSE when an exception skips it.  The answers of the
\* model carry no price, total or discount.
order_line_parses(line) ==
    /\ line.t = "obj"
    /\ LET a == data_get(line, <<"amount">>, VNull)
           q == data_get(line, <<"quantity">>, VNull)
           amount == IF truthy(a) THEN a ELSE IF truthy(q) THEN q ELSE VInt(1)
       IN  amount.t = "int" => amount.v > 0

_validate_and_convert(data) ==
    IF data.t # "obj"
    THEN Raised("AttributeError", "object has no attribute get")
    ELSE LET raw_lines == data_get(data, <<"order_lines">>, VArr(<<>>))
         IN  IF raw_lines.t \in {"null", "bool", "int", "float"}
             THEN Raised("TypeError", "object is not iterable")
             ELSE LET order_lines_parsed ==
                          IF raw_lines.t = "arr"
                          THEN SelectSeq(raw_lines.v, order_line_parses)
                          ELSE <<>>
                      vendor == data_get(data, <<"vendor_name">>, VNull)
                  IN  IF order_lines_parsed = <<>>
                      THEN Raised("ValueError",
                                  "No valid order lines could be extracted")
                      ELSE Returned(
                               [vendor_name |-> IF truthy(vendor) THEN vendor.v
                                                ELSE <<"Unknown Vendor">>,
                                order_lines |-> order_lines_parsed])

\* one attempt of parse_offer: the call, the parsing of the answer and the
\* validation; token_savings is the TOON text estimate_token_savings measures
attempt(answer, use_toon, estimate) ==
    LET result == _call_llm(answer)
    IN  IF result.exc # "none"
        THEN [outcome |-> result, token_savings |-> None]
        ELSE LET parsed_data == IF use_toon THEN _parse_toon_response(result.value)
                                ELSE _parse_json_response(result.value)
             IN  IF parsed_data.exc # "none"
                 THEN [outcome |-> parsed_data, token_savings |-> None]
                 ELSE [outcome |-> _validate_and_convert(parsed_data.value),
                       token_savings |->
                           IF use_toon /\ estimate
                           THEN Some(json_to_toon(parsed_data.value))
                           ELSE None]

\* what parse_offer gives: the offer or the error raised, the metadata, and
\* the formats of the LLM calls made
OfferResult(status, offer, format_used, fallback_used, token_savings, calls) ==
    [status |-> status, offer |-> offer,
     metadata |-> [format_used |-> format_used, fallback_used |-> fallback_used,
                   token_savings |-> token_savings],
     llm_calls |-> calls]

format_name(use_toon) == IF use_toon THEN "toon" ELSE "json"

parse_offer(self, use_toon_arg, answers) ==
    LET use_toon == IF use_toon_arg = None THEN self.use_toon ELSE use_toon_arg[1]
        first == attempt(answers[1], use_toon, TRUE)
    IN  IF first.outcome.exc = "none"
        THEN OfferResult("ok", first.outcome.value, format_name(use_toon), FALSE,
                         first.token_savings, <<format_name(use_toon)>>)
        ELSE IF first.outcome.exc \in {"ValueError", "KeyError"}
        THEN IF use_toon /\ self.fallback_to_json
             THEN LET second == attempt(answers[2], FALSE, FALSE)
                  IN  IF second.outcome.exc = "none"
                      THEN OfferResult("ok", second.outcome.value, "json", TRUE,
                                       first.token_savings, <<"toon", "json">>)
                      ELSE OfferResult("OfferParsingError", <<>>, "json", TRUE,
                                       first.token_savings, <<"toon", "json">>)
             ELSE OfferResult("OfferParsingError", <<>>, format_name(use_toon),
                              FALSE, first.token_savings,
                              <<format_name(use_toon)>>)
        ELSE IF mentions_api(first.outcome.message)
        THEN OfferResult("OpenAIUnavailableError", <<>>, format_name(use_toon),
                         FALSE, first.token_savings, <<format_name(use_toon)>>)
        ELSE OfferResult("OfferParsingError", <<>>, format_name(use_toon), FALSE,
                         first.token_savings, <<format_name(use_toon)>>)

NoOfferCall == [self |-> <<>>, use_toon |-> None, answers |-> <<>>]

OfferIdle ==
    /\ offer_call = NoOfferCall
    /\ offer_result = <<>>

ToonNext ==
    \/ JsonToToon
    \/ EncodeValue
    \/ ToonToJson
    \/ DecodeValue
    \/ ReEncodeJson
    \/ ReEncodeValue

\* the codec alone: the engine and the service stay idle
InitToon == ToonInit /\ CalcIdle /\ SvcIdle /\ AuthIdle /\ OfferIdle

SpecToon == InitToon /\ [][ToonNext]_vars

(***************************************************************************)
(* The decoder as a machine: one decoding function is called on a text,    *)
(* then its result.  toon_mode names the function, toon_text is the text,  *)
(* toon_text2 the delimiter of split_toon_pairs, toon_out the result.  The *)
(* text is any text over TextChars, one of the longer ExampleTexts, or     *)
(* what the encoder emits for the container toon_in.                       *)
(***************************************************************************)
TextChars ==
    {"|", ";", ":", "\"", "{", "}", "[", "]", "\\", "a", "1", ".", "-", " "}

Texts == UNION {[1..k -> TextChars] : k \in 0..MaxTextLen}

ExampleTexts ==
    {<<"u", ":", "h", ":", "/", "/", "x", ":", "8", "0">>,
     <<"u", ":", "h", ":", "8", "0", "|", "n", ":", "1">>,
     <<"k", ":", "a", ":", "1">>,
     <<"[", "[", "]", ";", "{", "}", "]">>,
     <<"k", ":", "{", "}", "|", "j", ":", "[", "]">>,
     <<"{", "k", ":", "[", "1", ";", "2", "]", "}">>,
     <<"k", ":", "-", "1", "0", "|", "j", ":", "1", ".", "5", "0">>,
     <<"{", "k", ":", "\"", "a", "|", "j", ":", "1">>,
     <<"0">>, <<"1", "0">>, <<"-", "1", "0">>, <<"0", "0", "7">>, <<"+", "1">>,
     <<"1", ".", "5", "0">>, <<"0", ".", "0">>, <<"-", "0", ".", "2", "5">>,
     NULL_TEXT, TRUE_TEXT, FALSE_TEXT}

Containers == {v \in ToonInputs : v.t \in {"obj", "arr"}}

DecodeModes == {"toon_to_dict", "toon_to_list", "toon_to_json", "decode_value"}

TextInit ==
    /\ toon_in \in {VNull} \cup Containers
    /\ toon_text \in (IF toon_in = VNull THEN Texts \cup ExampleTexts
                      ELSE {json_to_toon(toon_in)})
    /\ toon_mode \in (IF toon_in = VNull THEN DecodeModes \cup {"split_toon_pairs"}
                      ELSE IF toon_in.t = "obj"
                      THEN {"split_toon_pairs", "toon_to_dict", "toon_to_json"}
                      ELSE {"split_toon_pairs", "toon_to_list"})
    /\ toon_text2 \in (IF toon_mode # "split_toon_pairs" THEN {<<>>}
                       ELSE IF toon_in = VNull THEN {<<"|">>, <<";">>}
                       ELSE IF toon_in.t = "obj" THEN {<<"|">>} ELSE {<<";">>})
    /\ toon_out = VNull
    /\ toon_pc = "call"

TextReturn(result) ==
    /\ toon_out' = result
    /\ toon_pc' = "done"
    /\ UNCHANGED <<toon_in, toon_mode, toon_text, toon_text2>>
    /\ UNCHANGED <<calc_vars, svc_vars, auth_vars, offer_vars>>

SplitToonPairs ==
    /\ toon_pc = "call" /\ toon_mode = "split_toon_pairs"
    /\ TextReturn(split_toon_pairs(toon_text, toon_text2[1]))

ToonToDict ==
    /\ toon_pc = "call" /\ toon_mode = "toon_to_dict"
    /\ TextReturn(toon_to_dict(toon_text))

ToonToList ==
    /\ toon_pc = "call" /\ toon_mode = "toon_to_list"
    /\ TextReturn(toon_to_list(toon_text))

ToonToJsonText ==
    /\ toon_pc = "call" /\ toon_mode = "toon_to_json"
    /\ TextReturn(toon_to_json(toon_text))

DecodeValueText ==
    /\ toon_pc = "call" /\ toon_mode = "decode_value"
    /\ TextReturn(decode_value(toon_text))

TextNext ==
    \/ SplitToonPairs
    \/ ToonToDict
    \/ ToonToList
    \/ ToonToJsonText
    \/ DecodeValueText

\* the decoder alone
InitText == TextInit /\ CalcIdle /\ SvcIdle /\ AuthIdle /\ OfferIdle

SpecText == InitText /\ [][TextNext]_vars

\* the engine alone
InitCalc == CalcInit /\ ToonIdle /\ SvcIdle /\ AuthIdle /\ OfferIdle

SpecCalc == InitCalc /\ [][CalcNext]_vars

(***************************************************************************)
(* The service as a machine: the calls the routers make for a user, with   *)
(* the user's id and role, and the clock.                                  *)
(***************************************************************************)
VatUpper == <<"D", "E", "1", "2", "3", "4", "5", "6", "7", "8", "9">>

VatLower == <<"d", "e", "1", "2", "3", "4", "5", "6", "7", "8", "9">>

VatShort == <<"D", "E", "1">>

OrderLineCreate(line_type, description, unit_price, discount_percent) ==
    [line_type |-> line_type, description |-> description,
     unit_price |-> unit_price, amount |-> Dec(1, 0),
     discount_percent |-> discount_percent, discount_amount |-> None]

RequestCreate(vat_id, commodity_group_id, order_lines_) ==
    [title |-> "t1", vat_id |-> vat_id,
     commodity_group_id |-> commodity_group_id, order_lines |-> order_lines_]

CreateData ==
    {RequestCreate(VatLower, Some("cg1"),
         <<OrderLineCreate("standard", <<"a">>, Dec(5000, 2), None)>>),
     RequestCreate(VatUpper, None,
         <<OrderLineCreate("standard", <<"a">>, Dec(5000, 2), Some(Dec(10, 0))),
           OrderLineCreate("alternative", <<"a">>, Dec(100000, 2), None)>>),
     RequestCreate(VatShort, None,
         <<OrderLineCreate("standard", <<"a">>, Dec(5000, 2), None)>>),
     RequestCreate(VatUpper, Some("cg9"),
         <<OrderLineCreate("standard", <<"a">>, Dec(5000, 2), None)>>),
     RequestCreate(VatUpper, None,
         <<OrderLineCreate("standard", <<" ">>, Dec(5000, 2), None)>>)}

RequestUpdate(title, vat_id, commodity_group_id) ==
    [title |-> title, vat_id |-> vat_id, commodity_group_id |-> commodity_group_id]

UpdateData ==
    {RequestUpdate(Some("t2"), Some(VatLower), Some("cg1")),
     RequestUpdate(None, Some(VatShort), None),
     RequestUpdate(Some("t2"), None, Some("cg9"))}

RequestStatusUpdate ==
    [status : RequestStatus, notes : {None}]
        \cup {[status |-> "closed", notes |-> Some(<<"n">>)]}

RequestIds == 1..MaxRequests

SvcInit == SvcIdle

CreateRequest ==
    /\ \E user \in Users, data \in CreateData : create_request(user.id, data)
    /\ UNCHANGED <<toon_vars, calc_vars, auth_vars, offer_vars>>

UpdateRequest ==
    /\ \E request_id \in RequestIds, user \in Users, data \in UpdateData :
           update_request(request_id, user.id, user.role, data)
    /\ UNCHANGED <<toon_vars, calc_vars, auth_vars, offer_vars>>

UpdateRequestStatus ==
    /\ \E request_id \in RequestIds, user \in Users, data \in RequestStatusUpdate :
           update_request_status(request_id, user.id, user.role, data)
    /\ UNCHANGED <<toon_vars, calc_vars, auth_vars, offer_vars>>

DeleteRequest ==
    /\ \E request_id \in RequestIds, user \in Users :
           delete_request(request_id, user.id, user.role)
    /\ UNCHANGED <<toon_vars, calc_vars, auth_vars, offer_vars>>

AddProcurementNote ==
    /\ \E request_id \in RequestIds, user \in Users :
           add_procurement_note(request_id, user.id, <<"n">>)
    /\ UNCHANGED <<toon_vars, calc_vars, auth_vars, offer_vars>>

GetRequest ==
    /\ \E request_id \in RequestIds, user \in Users :
           get_request_call(request_id, user.id, user.role)
    /\ UNCHANGED <<toon_vars, calc_vars, auth_vars, offer_vars>>

GetStatusHistory ==
    /\ \E request_id \in RequestIds, user \in Users :
           get_status_history(request_id, user.id, user.role)
    /\ UNCHANGED <<toon_vars, calc_vars, auth_vars, offer_vars>>

ListRequests ==
    /\ \E user \in Users, status_filter \in {None, Some("open")},
          requestor_id \in {None} \cup {Some(u.id) : u \in Users} :
           list_requests(user.id, user.role, status_filter, requestor_id)
    /\ UNCHANGED <<toon_vars, calc_vars, auth_vars, offer_vars>>

\* time passes between calls
Tick ==
    /\ now < MaxTime
    /\ now' = now + 1
    /\ outcome' = NoCall
    /\ UNCHANGED <<requests, order_lines, status_history, request_ids>>
    /\ UNCHANGED <<toon_vars, calc_vars, auth_vars, offer_vars>>

Next ==
    \/ CreateRequest
    \/ UpdateRequest
    \/ UpdateRequestStatus
    \/ DeleteRequest
    \/ AddProcurementNote
    \/ Tick

\* the service alone, on an empty database
Init == SvcInit /\ ToonIdle /\ CalcIdle /\ AuthIdle /\ OfferIdle

Spec == Init /\ [][Next]_vars

\* the calls that read, between the calls that add and remove requests and
\* entries and move the status
ReadNext ==
    \/ CreateRequest
    \/ UpdateRequestStatus
    \/ DeleteRequest
    \/ AddProcurementNote
    \/ GetRequest
    \/ GetStatusHistory
    \/ ListRequests

InitRead == SvcInit /\ ToonIdle /\ CalcIdle /\ AuthIdle /\ OfferIdle

SpecRead == InitRead /\ [][ReadNext]_vars

(***************************************************************************)
(* The authentication endpoints as a state machine.                        *)
(***************************************************************************)
Register ==
    /\ Len(users) < MaxUsers
    /\ \E email \in Emails :
       \E password \in {StrongPassword, NoDigitPassword, ShortPassword} :
           register(email, password, "requestor")
    /\ Cardinality(issued_tokens') <= MaxTokens
    /\ UNCHANGED <<login_attempts, token_blacklist, logged_out, clock>>
    /\ UNCHANGED <<toon_vars, calc_vars, svc_vars, offer_vars>>

Login ==
    /\ \E email \in Emails :
       \E password \in {StrongPassword, OtherPassword} :
           login(email, password)
    /\ Len(login_attempts') <= MaxAttempts
    /\ Cardinality(issued_tokens') <= MaxTokens
    /\ UNCHANGED <<users, token_blacklist, logged_out, clock>>
    /\ UNCHANGED <<toon_vars, calc_vars, svc_vars, offer_vars>>

Logout ==
    /\ \E token \in issued_tokens \cup {GarbageToken} : logout(token)
    /\ UNCHANGED <<users, login_attempts, issued_tokens, clock>>
    /\ UNCHANGED <<toon_vars, calc_vars, svc_vars, offer_vars>>

GetCurrentUser ==
    /\ \E token \in issued_tokens \cup {GarbageToken} : get_current_user(token)
    /\ UNCHANGED <<users, login_attempts, token_blacklist, issued_tokens,
                   logged_out, clock>>
    /\ UNCHANGED <<toon_vars, calc_vars, svc_vars, offer_vars>>

\* time passes between two requests
AuthTick ==
    /\ clock < MaxClock
    /\ clock' = clock + 1
    /\ auth_outcome' = NoAuthCall
    /\ UNCHANGED <<users, login_attempts, token_blacklist, issued_tokens,
                   logged_out>>
    /\ UNCHANGED <<toon_vars, calc_vars, svc_vars, offer_vars>>

\* sessions: tokens are issued, revoked and presented
AuthNext ==
    \/ Register
    \/ Login
    \/ Logout
    \/ GetCurrentUser

InitAuth == AuthIdle /\ ToonIdle /\ CalcIdle /\ SvcIdle /\ OfferIdle

SpecAuth == InitAuth /\ [][AuthNext]_vars

\* logins over time
LockoutNext ==
    \/ Register
    \/ Login
    \/ AuthTick

InitLockout == AuthIdle /\ ToonIdle /\ CalcIdle /\ SvcIdle /\ OfferIdle

SpecLockout == InitLockout /\ [][LockoutNext]_vars

(***************************************************************************)
(* One parse_offer call of a service built with some settings, with the    *)
(* answers the LLM gives to the first and to the second call.              *)
(***************************************************************************)
ParseOffer ==
    /\ offer_call = NoOfferCall
    /\ \E self \in [use_toon : BOOLEAN, fallback_to_json : BOOLEAN] :
       \E use_toon_arg \in {None, Some(TRUE), Some(FALSE)} :
       \E first \in LLMAnswers :
       \E second \in LLMAnswers :
           /\ offer_call' = [self |-> Some(self), use_toon |-> use_toon_arg,
                             answers |-> <<first, second>>]
           /\ offer_result' =
                  Some(parse_offer(self, use_toon_arg, <<first, second>>))
    /\ UNCHANGED <<toon_vars, calc_vars, svc_vars, auth_vars>>

OfferNext == ParseOffer

InitOffer == OfferIdle /\ ToonIdle /\ CalcIdle /\ SvcIdle /\ AuthIdle

SpecOffer == InitOffer /\ [][OfferNext]_vars

(***************************************************************************)
(* Claims about the codec, checked under SpecToon.                         *)
(***************************************************************************)
\* the reserved characters as the format's description lists them
ReservedChars == {"|", ":", ";", "{", "}", "[", "]", "\"", "\n", "\r", "\t"}

ReservedSingle(v) == v.t = "str" /\ Len(v.v) = 1 /\ v.v[1] \in ReservedChars

RECURSIVE OfReservedSingles(_)
\* a reserved single, or a non-empty array or object built of such values
OfReservedSingles(v) ==
    CASE v.t = "str" -> ReservedSingle(v)
      [] v.t = "arr" -> v.v # <<>> /\ \A i \in 1..Len(v.v) : OfReservedSingles(v.v[i])
      [] v.t = "obj" -> v.v # <<>> /\ \A i \in 1..Len(v.v) : OfReservedSingles(v.v[i][2])
      [] OTHER -> FALSE

RECURSIVE EscapeEach(_)
\* every backslash and every double quote prefixed by a backslash
EscapeEach(s) ==
    IF s = <<>> THEN <<>>
    ELSE (IF s[1] \in {"\\", "\""} THEN <<"\\", s[1]>> ELSE <<s[1]>>)
             \o EscapeEach(Tail(s))

\* C1: decoding the encoding of any value gives the value back
\* (toon_to_json(json_to_toon(v)) = v).
C1_RoundTrip ==
    (toon_mode = "json" /\ toon_pc \in {"decoded", "reencoded"}) => toon_out = toon_in

\* C8: re-encoding is idempotent:
\* json_to_toon(toon_to_json(json_to_toon(v))) = json_to_toon(v).
C8_ReencodeIdempotent ==
    (toon_mode = "json" /\ toon_pc = "reencoded") => toon_text2 = toon_text

\* C9: a string that is exactly one reserved character is encoded as a
\* double-quoted token, and decoding it, alone or as a value of an object or
\* an element of an array, gives back that one-character string.
C9_ReservedSingleRoundTrip ==
    /\ (toon_mode = "value" /\ toon_pc # "input" /\ ReservedSingle(toon_in))
          => /\ Len(toon_text) >= 3
             /\ toon_text[1] = "\"" /\ toon_text[Len(toon_text)] = "\""
             /\ inner_slice(toon_text) \in {toon_in.v, <<"\\">> \o toon_in.v}
    /\ (/\ toon_pc \in {"decoded", "reencoded"}
        /\ OfReservedSingles(toon_in)
        /\ (toon_mode = "value" \/ toon_in.t = "obj"))
          => toon_out = toon_in

C9_Witness ==
    /\ toon_pc = "decoded" /\ toon_mode = "json"
    /\ toon_in = VObj(<< <<(<<"k">>), VStr(<<"|">>)>>, <<(<<"j">>), VStr(<<"\"">>)>> >>)
    /\ toon_text = <<"k", ":", "\"", "|", "\"", "|", "j", ":", "\"", "\\", "\"", "\"">>
    /\ toon_out = toon_in

\* C10: encode_value emits a string bare exactly when it is non-empty and has
\* no reserved character; every other string is wrapped in double quotes with
\* each backslash and double quote prefixed by a backslash.
C10_BareOrQuoted ==
    (toon_mode = "value" /\ toon_pc # "input" /\ toon_in.t = "str")
        => LET s == toon_in.v
               bare == s # <<>> /\ \A i \in 1..Len(s) : s[i] \notin ReservedChars
           IN /\ bare => toon_text = s
              /\ ~bare => toon_text = <<"\"">> \o EscapeEach(s) \o <<"\"">>
              /\ bare <=> (toon_text = s)

C10_Witness ==
    /\ toon_pc = "encoded" /\ toon_mode = "value"
    /\ toon_in = VStr(<<"\\", "\"">>)
    /\ toon_text = <<"\"", "\\", "\\", "\\", "\"", "\"">>

OpenOf(v) == IF v.t = "obj" THEN "{" ELSE "["

CloseOf(v) == IF v.t = "obj" THEN "}" ELSE "]"

IsContainer(v) == v.t \in {"obj", "arr"}

\* the members of an object or array: the values of its pairs, its elements
MembersOf(v) ==
    IF v.t = "obj" THEN [i \in 1..Len(v.v) |-> v.v[i][2]] ELSE v.v

RECURSIVE WrappedInside(_)
\* every object or array inside v is written as its pair of braces or
\* brackets around its own members
WrappedInside(v) ==
    \A i \in 1..Len(MembersOf(v)) :
        LET m == MembersOf(v)[i] IN
        IsContainer(m)
            => /\ Enclosed(encode_value(m), OpenOf(m), CloseOf(m))
               /\ inner_slice(encode_value(m)) = json_to_toon(m)
               /\ WrappedInside(m)

\* C16: json_to_toon writes a top-level object or array as its pairs or
\* elements only, without the outermost {} or [] that the same value gets
\* when nested, and every object or array inside it wrapped in {} or [].
C16_OutermostPairOmitted ==
    (toon_mode = "json" /\ toon_pc # "input" /\ IsContainer(toon_in))
        => /\ <<OpenOf(toon_in)>> \o toon_text \o <<CloseOf(toon_in)>>
                = encode_value(toon_in)
           /\ toon_text
                = join([i \in 1..Len(toon_in.v) |->
                          IF toon_in.t = "obj"
                          THEN toon_in.v[i][1] \o <<":">> \o encode_value(toon_in.v[i][2])
                          ELSE encode_value(toon_in.v[i])],
                       IF toon_in.t = "obj" THEN <<"|">> ELSE <<";">>)
           /\ WrappedInside(toon_in)

C16_Witness ==
    /\ toon_mode = "json" /\ toon_pc = "encoded"
    /\ toon_in = VArr(<<VArr(<<VStr(<<"a">>), VStr(<<"1">>)>>)>>)
    /\ toon_text = <<"[", "a", ";", "1", "]">>

(***************************************************************************)
(* Claims about the engine, checked under SpecCalc.                        *)
(***************************************************************************)
CalcDone(op) == calc_pc = "done" /\ calc_call.op = op

RECURSIVE SumCents(_, _)
\* the sum over the indices in I of the cents of each line's total
SumCents(lines, I) ==
    IF I = {} THEN 0
    ELSE LET i == CHOOSE k \in I : TRUE
         IN calculate_order_line_total(lines[i].unit_price, lines[i].amount,
                                       lines[i].discount_percent).n
              + SumCents(lines, I \ {i})

\* C2: with both discount_percent and discount_amount on a line, the line
\* total is unit_price * amount minus discount_amount (100 * 2 with 50 percent
\* and amount 30 gives 170.00).
C2_AmountWinsOverPercent ==
    (/\ CalcDone("calculate_order_line_total") \/ CalcDone("calculate_total")
     /\ calc_call.line.discount_percent # None
     /\ calc_call.line.discount_amount # None)
        => LET line == calc_call.line
               subtotal == DecMul(line.unit_price, line.amount)
           IN DecEq(calc_result,
                    quantize_cents(DecSub(subtotal, line.discount_amount[1])))

\* C4: validate_status_transition is ok exactly for open->in_progress,
\* open->closed, in_progress->closed, in_progress->open; every other pair,
\* every pair of equal statuses and every pair from closed among them, gives
\* (False, message).
C4_TransitionTable ==
    CalcDone("validate_status_transition")
        => LET pair == <<calc_call.current_status, calc_call.new_status>>
               ok == pair \in {<<"open", "in_progress">>, <<"open", "closed">>,
                               <<"in_progress", "closed">>, <<"in_progress", "open">>}
           IN /\ calc_result[1] = ok
              /\ ok => calc_result[2] = <<>>
              /\ ~ok => calc_result[2] # <<>>

C4_Witness ==
    /\ CalcDone("validate_status_transition")
    /\ calc_call.current_status = "closed" /\ calc_call.new_status = "open"
    /\ calc_result[1] = FALSE

\* C5: calculate_request_total is the sum of the line totals of the standard
\* lines; alternative and optional lines contribute zero (50.00 standard,
\* 1000.00 alternative, 500.00 optional give 50.00).
C5_StandardLinesOnly ==
    CalcDone("calculate_request_total")
        => LET lines == calc_call.order_lines
               standard == {i \in 1..Len(lines) : lines[i].line_type = "standard"}
           IN /\ calc_result.e = 2
              /\ calc_result.n = SumCents(lines, standard)

C5_Witness ==
    /\ CalcDone("calculate_request_total")
    /\ Len(calc_call.order_lines) = 3
    /\ calc_call.order_lines[1].line_type = "standard"
    /\ calc_call.order_lines[1].unit_price = Dec(5000, 2)
    /\ calc_call.order_lines[1].discount_percent = None
    /\ calc_call.order_lines[2].line_type = "alternative"
    /\ calc_call.order_lines[2].unit_price = Dec(100000, 2)
    /\ calc_call.order_lines[3].line_type = "optional"
    /\ calc_call.order_lines[3].unit_price = Dec(50000, 2)
    /\ calc_result = Dec(5000, 2)

\* C6: without discount_amount the line total is unit_price * amount less
\* discount_percent/100 of it (nothing when the percent is absent), computed
\* exactly and rounded once to cents, ties up (10.005 * 1 gives 10.01).
C6_RoundedOnceHalfUp ==
    (CalcDone("calculate_order_line_total") /\ calc_call.line.discount_amount = None)
        => LET line == calc_call.line
               pct == IF line.discount_percent = None THEN Dec(0, 0)
                      ELSE line.discount_percent[1]
               \* the exact total is num / (100 * den)
               num == line.unit_price.n * line.amount.n * (100 * Pow10(pct.e) - pct.n)
               den == Pow10(line.unit_price.e + line.amount.e + pct.e)
               cents == calc_result.n
           IN /\ calc_result.e = 2
              /\ (2 * cents - 1) * den <= 2 * num
              /\ 2 * num < (2 * cents + 1) * den

C6_Witness ==
    /\ CalcDone("calculate_order_line_total")
    /\ calc_call.line.unit_price = Dec(10005, 3)
    /\ calc_call.line.amount = Dec(1, 0)
    /\ calc_call.line.discount_percent = None
    /\ calc_call.line.discount_amount = None
    /\ calc_result = Dec(1001, 2)

\* d in thousandths (d has at most three fractional digits)
Thousandths(d) == d.n * Pow10(3 - d.e)

\* |calculated - provided| <= tolerance
WithinTolerance(calculated, provided, tolerance) ==
    LET diff == Thousandths(calculated) - Thousandths(provided) IN
    diff <= Thousandths(tolerance) /\ 0 - diff <= Thousandths(tolerance)

\* the text of d occurs in message
Names(message, d) ==
    \E k \in 1..Len(message) :
        k + Len(DecToStr(d)) - 1 <= Len(message)
            /\ SubSeq(message, k, k + Len(DecToStr(d)) - 1) = DecToStr(d)

\* the result is ok with no message exactly when the provided total is within
\* the tolerance of the calculated one, else not ok with a message naming both
TotalVerdict(result, calculated, provided, tolerance) ==
    /\ result[1] <=> WithinTolerance(calculated, provided, tolerance)
    /\ result[1] => result[2] = <<>>
    /\ ~result[1] => Names(result[2], calculated) /\ Names(result[2], provided)

\* C18: validate_order_line_total and validate_request_total return ok
\* exactly when the absolute difference of the recomputed and the provided
\* total is at most the tolerance (a difference equal to it passes), and
\* otherwise False with a message naming both values.  For unit price 10,
\* amount 3 and tolerance 0.01 a provided total of 30.005 passes and 30.02
\* fails.
C18_TotalWithinTolerance ==
    /\ CalcDone("validate_order_line_total")
         => /\ TotalVerdict(calc_result,
                   calculate_order_line_total(calc_call.unit_price, calc_call.amount, None),
                   calc_call.provided_total, calc_call.tolerance)
            /\ (/\ calc_call.unit_price = Dec(10, 0) /\ calc_call.amount = Dec(3, 0)
                /\ calc_call.tolerance = Dec(1, 2))
                 => /\ calc_call.provided_total = Dec(30005, 3) => calc_result[1]
                    /\ calc_call.provided_total = Dec(3001, 2) => calc_result[1]
                    /\ calc_call.provided_total = Dec(3002, 2) => ~calc_result[1]
    /\ CalcDone("validate_request_total")
         => TotalVerdict(calc_result, calculate_request_total(calc_call.order_lines),
                calc_call.provided_total, calc_call.tolerance)

C18_Witness ==
    /\ CalcDone("validate_order_line_total")
    /\ calc_call.unit_price = Dec(10, 0) /\ calc_call.amount = Dec(3, 0)
    /\ calc_call.tolerance = Dec(1, 2) /\ calc_call.provided_total = Dec(3002, 2)
    /\ calc_result
         = <<FALSE, <<"Total mismatch: expected ", "3", "0", ".", "0", "0",
                      ", got ", "3", "0", ".", "0", "2">>>>

\* s is the two letters DE followed by exactly nine ASCII digits
DEPlusNineAsciiDigits(s) ==
    /\ Len(s) = 11
    /\ SubSeq(s, 1, 2) = <<"D", "E">>
    /\ \A i \in 3..11 : s[i] \in DigitSet

\* C19: validate_vat_id accepts an input exactly when its uppercase form is
\* DE followed by exactly nine ASCII digits; every other input, the empty
\* one included, gets False and a message.
C19_AcceptsExactlyDEPlusNineAsciiDigits ==
    CalcDone("validate_vat_id")
        => /\ calc_result[1] <=> DEPlusNineAsciiDigits(upper(calc_call.vat_id))
           /\ ~calc_result[1] => calc_result[2] # <<>>

\* the three rules of a line, in the order they are tested
RuleText ==
    <<"Unit price cannot be negative", "Amount must be greater than 0",
      "Description is required">>

\* line breaks rule r
Violates(line, r) ==
    CASE r = 1 -> line.unit_price.n < 0
      [] r = 2 -> line.amount.n <= 0
      [] r = 3 -> \A k \in 1..Len(line.description) :
                      line.description[k] \in WHITESPACE

\* the pairs <<line index, rule>> of the violations in lines
ViolationsOf(lines) ==
    {ir \in (1..Len(lines)) \X (1..3) : Violates(lines[ir[1]], ir[2])}

\* the rule a message is about
RuleOf(message) == CHOOSE r \in 1..3 : RuleText[r] = message[1]

\* errors holds exactly one message for each violation in lines, each with
\* the 1-based index of its line, by line and within a line by rule
OneMessagePerViolation(errors, lines) ==
    /\ Len(errors) = Cardinality(ViolationsOf(lines))
    /\ \A ir \in ViolationsOf(lines) :
           \E p \in 1..Len(errors) : errors[p] = <<RuleText[ir[2]], ir[1]>>
    /\ \A p \in 1..Len(errors) :
           \E ir \in ViolationsOf(lines) : errors[p] = <<RuleText[ir[2]], ir[1]>>
    /\ \A p, q \in 1..Len(errors) :
           p < q => \/ errors[p][2] < errors[q][2]
                    \/ /\ errors[p][2] = errors[q][2]
                       /\ RuleOf(errors[p]) < RuleOf(errors[q])

\* C20: validate_order_lines returns False and one message for an empty
\* list; for a non-empty list it returns one message for every violation of
\* every line (negative unit price, amount <= 0, empty or blank description),
\* each with the line's 1-based index, in line order, going on after the
\* first violation; it returns ok exactly when there is no message.
\* validate_request_data passes these messages on unchanged after its own.
C20_EveryViolationReported ==
    /\ CalcDone("validate_order_lines")
         => /\ calc_call.order_lines = <<>>
                 => ~calc_result[1] /\ Len(calc_result[2]) = 1
            /\ calc_call.order_lines # <<>>
                 => OneMessagePerViolation(calc_result[2], calc_call.order_lines)
            /\ calc_result[1] <=> calc_result[2] = <<>>
    /\ (CalcDone("validate_request_data") /\ calc_call.order_lines # <<>>)
         => LET own == IF DEPlusNineAsciiDigits(calc_call.vat_id) THEN 0 ELSE 1 IN
            /\ Len(calc_result[2]) >= own
            /\ OneMessagePerViolation(
                   SubSeq(calc_result[2], own + 1, Len(calc_result[2])),
                   calc_call.order_lines)
            /\ calc_result[1] <=> calc_result[2] = <<>>

C20_Witness ==
    /\ CalcDone("validate_order_lines")
    /\ Len(calc_call.order_lines) = 2
    /\ calc_result
         = <<FALSE, << <<"Unit price cannot be negative", 1>>,
                       <<"Description is required", 1>>,
                       <<"Amount must be greater than 0", 2>>,
                       <<"Description is required", 2>> >> >>

(***************************************************************************)
(* Claims about the request service, checked under Spec.                   *)
(***************************************************************************)
RECURSIVE SumStoredStandard(_, _)
\* the sum of the cents of total_price over the stored standard lines in I
SumStoredStandard(lines, I) ==
    IF I = {} THEN 0
    ELSE LET i == CHOOSE k \in I : TRUE
         IN (IF lines[i].line_type = "standard" THEN lines[i].total_price.n ELSE 0)
              + SumStoredStandard(lines, I \ {i})

Created == outcome.op = "create_request" /\ outcome.error = "none"

\* the role of the user who made the call of this step
CallerRole == (CHOOSE user \in Users : user.id = outcome'.user_id).role

\* the call of this step is update_request_status for request id
StatusCallOn(id) ==
    /\ outcome'.op = "update_request_status"
    /\ outcome'.request_id = id

\* C3: a closed request stays closed: no call deletes it or changes its
\* status; update_request_status on it is rejected, with
\* InvalidStatusTransitionError when the caller is of the procurement team
\* and with PermissionDeniedError when not.
C3_ClosedStaysClosed ==
    [][\A id \in DOMAIN requests :
          requests[id].status = "closed"
              => /\ id \in DOMAIN requests'
                 /\ requests'[id].status = "closed"
                 /\ StatusCallOn(id)
                        => outcome'.error =
                               IF CallerRole = "procurement_team"
                               THEN "InvalidStatusTransitionError"
                               ELSE "PermissionDeniedError"]_vars

\* C3 as stated: a closed request stays closed and every update_request_status
\* on it, by any user, is rejected with InvalidStatusTransitionError.
C3_AnyCallerInvalidTransition ==
    [][\A id \in DOMAIN requests :
          requests[id].status = "closed"
              => /\ id \in DOMAIN requests'
                 /\ requests'[id].status = "closed"
                 /\ StatusCallOn(id)
                        => outcome'.error = "InvalidStatusTransitionError"]_vars

C3_Witness ==
    /\ outcome.op = "update_request_status"
    /\ outcome.error = "InvalidStatusTransitionError"
    /\ outcome.request_id \in DOMAIN requests
    /\ requests[outcome.request_id].status = "closed"
    /\ Len(status_history[outcome.request_id]) = 2

\* C7: after a successful create_request every stored line's total_price is
\* the engine's total for its unit price, amount and discount, and the stored
\* total_cost is the sum of total_price over the stored standard lines.
C7_StoredTotalsAgree ==
    Created
        => LET id == outcome.request_id
               lines == order_lines[id]
           IN /\ \A i \in 1..Len(lines) :
                     lines[i].total_price = calculate_order_line_total(
                         lines[i].unit_price, lines[i].amount,
                         lines[i].discount_percent)
              /\ requests[id].total_cost.n = SumStoredStandard(lines, 1..Len(lines))

\* the call of this step failed
Failed == outcome'.error # "none"

\* t is listed in VALID_STATUS_TRANSITIONS[s]
Listed(s, t) ==
    \E k \in 1..Len(VALID_STATUS_TRANSITIONS[s]) : VALID_STATUS_TRANSITIONS[s][k] = t

\* C21: a request is OPEN right after create_request; afterwards its status
\* changes only in a successful update_request_status on it, and only from s
\* to a status listed in VALID_STATUS_TRANSITIONS[s]; update_request,
\* add_procurement_note and every failed call leave every status as it was.
C21_StatusOnlyByListedTransition ==
    [][/\ \A id \in DOMAIN requests' \ DOMAIN requests :
              /\ outcome'.op = "create_request" /\ outcome'.request_id = id
              /\ requests'[id].status = "open"
       /\ \A id \in DOMAIN requests \cap DOMAIN requests' :
              requests'[id].status # requests[id].status
                  => /\ StatusCallOn(id) /\ ~Failed
                     /\ Listed(requests[id].status, requests'[id].status)
       /\ (Failed \/ outcome'.op \in {"update_request", "add_procurement_note"})
              => /\ DOMAIN requests' = DOMAIN requests
                 /\ \A id \in DOMAIN requests :
                        requests'[id].status = requests[id].status]_vars

C21_Witness ==
    /\ outcome.op = "update_request_status" /\ outcome.error = "none"
    /\ outcome.request_id \in DOMAIN requests
    /\ requests[outcome.request_id].status = "in_progress"
    /\ Len(status_history[outcome.request_id]) = 2
    /\ status_history[outcome.request_id][1].status = "open"

\* C24: update_request_status on an existing request by a user whose role
\* is not PROCUREMENT_TEAM fails with PermissionDeniedError, whatever status
\* is asked for and also when the user owns the request, and leaves the
\* request's status and status history as they were.
C24_StatusChangeNeedsProcurementRole ==
    [][\A id \in DOMAIN requests :
          (StatusCallOn(id) /\ CallerRole # "procurement_team")
              => /\ outcome'.error = "PermissionDeniedError"
                 /\ id \in DOMAIN requests'
                 /\ requests'[id].status = requests[id].status
                 /\ status_history'[id] = status_history[id]]_vars

C24_Witness ==
    /\ outcome.op = "update_request_status"
    /\ outcome.error = "PermissionDeniedError"
    /\ outcome.user_id = "alice"
    /\ outcome.request_id \in DOMAIN requests
    /\ requests[outcome.request_id].user_id = "alice"
    /\ requests[outcome.request_id].status = "in_progress"

\* the call of this step is op for request id
CallOn(op, id) == outcome'.op = op /\ outcome'.request_id = id

\* the caller of this step created request id
CallerOwns(id) == requests[id].user_id = outcome'.user_id

\* C25: update_request changes a field of a request only when the caller
\* owns it and it is not CLOSED; on an existing request a call by another
\* user, or on a closed request, fails with PermissionDeniedError and leaves
\* every field of the request as it was.
C25_UpdateOnlyByOwnerWhileNotClosed ==
    [][\A id \in DOMAIN requests :
          CallOn("update_request", id)
              => /\ id \in DOMAIN requests'
                 /\ (~CallerOwns(id) \/ requests[id].status = "closed")
                        => /\ outcome'.error = "PermissionDeniedError"
                           /\ requests'[id] = requests[id]
                 /\ requests'[id] # requests[id]
                        => /\ CallerOwns(id)
                           /\ requests[id].status # "closed"
                           /\ outcome'.error = "none"]_vars

C25_Witness ==
    /\ outcome.op = "update_request" /\ outcome.error = "none"
    /\ outcome.request_id \in DOMAIN requests
    /\ requests[outcome.request_id].user_id = outcome.user_id
    /\ requests[outcome.request_id].title = "t2"
    /\ requests[outcome.request_id].status = "in_progress"

\* the caller of this step may delete request id: it is OPEN and the caller
\* owns it or is of the procurement team
MayDelete(id) ==
    /\ requests[id].status = "open"
    /\ CallerOwns(id) \/ CallerRole = "procurement_team"

AppendsOne(id, status) ==
    /\ Len(status_history'[id]) = Len(status_history[id]) + 1
    /\ SubSeq(status_history'[id], 1, Len(status_history[id])) = status_history[id]
    /\ status_history'[id][Len(status_history'[id])].status = status

\* the last entry of the history of every request carries its status
LastEntryIsStatus ==
    \A id \in DOMAIN requests :
        /\ id \in DOMAIN status_history /\ status_history[id] # <<>>
        /\ status_history[id][Len(status_history[id])].status = requests[id].status

\* C28: the status history follows the status: create_request starts it with
\* one OPEN entry, a successful update_request_status appends one entry of
\* the new status, add_procurement_note appends one entry of the unchanged
\* status, and at all times the entry appended last carries the request's
\* status.
C28_HistoryTracksStatus ==
    /\ []LastEntryIsStatus
    /\ [][/\ \A id \in DOMAIN requests' \ DOMAIN requests :
                 /\ Len(status_history'[id]) = 1
                 /\ status_history'[id][1].status = "open"
          /\ \A id \in DOMAIN requests :
                 /\ (StatusCallOn(id) /\ ~Failed)
                        => /\ AppendsOne(id, requests'[id].status)
                           /\ requests'[id].status # requests[id].status
                 /\ (CallOn("add_procurement_note", id) /\ ~Failed)
                        => /\ AppendsOne(id, requests[id].status)
                           /\ requests'[id].status = requests[id].status]_vars

C28_Witness ==
    /\ outcome.op = "add_procurement_note" /\ outcome.error = "none"
    /\ outcome.request_id \in DOMAIN requests
    /\ requests[outcome.request_id].status = "in_progress"
    /\ Len(status_history[outcome.request_id]) = 3
    /\ status_history[outcome.request_id][3].status = "in_progress"
    /\ status_history[outcome.request_id][3].notes = <<"n">>

\* C30: an update_request_status that fails changes nothing: the request is
\* not found, or the caller is not of the procurement team, or the
\* transition is a no-op or not in the table, and then every request keeps
\* its status and updated_at and no status-history entry is added.  A call
\* that succeeds is none of these: the request exists, the caller is of the
\* procurement team and the status moved to a listed one.
C30_FailedStatusUpdateChangesNothing ==
    [][outcome'.op = "update_request_status"
          => LET id == outcome'.request_id IN
             /\ Failed
                  => /\ requests' = requests
                     /\ status_history' = status_history
                     /\ order_lines' = order_lines
                     /\ outcome'.error =
                          IF id \notin DOMAIN requests THEN "RequestNotFoundError"
                          ELSE IF CallerRole # "procurement_team"
                          THEN "PermissionDeniedError"
                          ELSE "InvalidStatusTransitionError"
             /\ ~Failed
                  => /\ id \in DOMAIN requests /\ CallerRole = "procurement_team"
                     /\ requests'[id].status # requests[id].status
                     /\ Listed(requests[id].status, requests'[id].status)]_vars

C30_Witness ==
    /\ outcome.op = "update_request_status"
    /\ outcome.error = "InvalidStatusTransitionError"
    /\ outcome.request_id \in DOMAIN requests
    /\ requests[outcome.request_id].status = "open"
    /\ requests[outcome.request_id].updated_at = 0 /\ now = 1
    /\ Len(status_history[outcome.request_id]) = 1

(***************************************************************************)
(* Claims about the decoder, checked under SpecText.                       *)
(***************************************************************************)
TextDone(mode) == toon_pc = "done" /\ toon_mode = mode

\* the texts the encoder joins to make the body of container v
EncodedParts(v) ==
    IF v.t = "obj"
    THEN [i \in 1..Len(v.v) |-> v.v[i][1] \o <<":">> \o encode_value(v.v[i][2])]
    ELSE [i \in 1..Len(v.v) |-> encode_value(v.v[i])]

\* C11: split_toon_pairs only removes delimiters (those outside quotes and
\* nested structures, a backslash making the next character literal), and
\* for the text the encoder emits for an object or array the parts are
\* exactly the encoded pairs or elements, in order.
C11_SplitsEncoderOutputIntoItsParts ==
    TextDone("split_toon_pairs")
        => /\ \/ toon_text = join(toon_out, toon_text2)
              \/ toon_text = join(toon_out, toon_text2) \o toon_text2
           /\ toon_in # VNull => toon_out = EncodedParts(toon_in)

\* the value result holds under key, as a one-element set ({} when absent)
Lookup(result, key) == {result[i][2] : i \in {j \in 1..Len(result) : result[j][1] = key}}

\* position k is the first colon of pair
FirstColon(pair, k) == pair[k] = ":" /\ \A j \in 1..(k - 1) : pair[j] # ":"

\* the key of a pair that has a colon: the text before its first colon
KeyOf(pair) ==
    strip(SubSeq(pair, 1, (CHOOSE k \in 1..Len(pair) : FirstColon(pair, k)) - 1))

\* a text decode_value takes as a plain string
PlainText(s) ==
    /\ s # <<>> /\ strip(s) = s
    /\ s \notin {NULL_TEXT, TRUE_TEXT, FALSE_TEXT}
    /\ s[1] \notin {"\"", "{", "[", "-", "+", "."} \cup DigitSet

\* C12: toon_to_dict cuts each pair at its first colon only: the key is the
\* text before it, and all the text after it, further colons included, is
\* decoded as the value under that key (the last pair of a key wins); a plain
\* value with colons comes back whole, and no other key appears.
C12_FirstColonOnly ==
    TextDone("toon_to_dict")
        => LET pairs == split_toon_pairs(toon_text, "|")
               kept == {i \in 1..Len(pairs) :
                           contains(pairs[i], ":") /\ KeyOf(pairs[i]) # <<>>}
               last == {i \in kept :
                           \A j \in kept : j > i => KeyOf(pairs[j]) # KeyOf(pairs[i])}
           IN /\ {toon_out[i][1] : i \in 1..Len(toon_out)} = {KeyOf(pairs[i]) : i \in kept}
              /\ \A i \in last : \E k \in 1..Len(pairs[i]) :
                     /\ FirstColon(pairs[i], k)
                     /\ LET rest == SubSeq(pairs[i], k + 1, Len(pairs[i]))
                        IN /\ Lookup(toon_out, KeyOf(pairs[i])) = {decode_value(rest)}
                           /\ PlainText(rest)
                                => Lookup(toon_out, KeyOf(pairs[i])) = {VStr(rest)}

C12_Witness ==
    /\ TextDone("toon_to_dict")
    /\ toon_text = <<"u", ":", "h", ":", "/", "/", "x", ":", "8", "0">>
    /\ toon_out = << <<(<<"u">>), VStr(<<"h", ":", "/", "/", "x", ":", "8", "0">>)>> >>

\* C13: toon_to_json decodes its trimmed input as an array when it starts
\* with [ and ends with ], as an object when it starts with { and ends with
\* }, and otherwise as an object body; the result is a list in the first
\* case and a dict in the other two.
C13_TopLevelDispatch ==
    TextDone("toon_to_json")
        => LET text == strip(toon_text)
               inner == SubSeq(text, 2, Len(text) - 1)
           IN /\ Enclosed(text, "[", "]") => toon_out = VArr(toon_to_list(inner))
              /\ Enclosed(text, "{", "}") => toon_out = VObj(toon_to_dict(inner))
              /\ (~Enclosed(text, "[", "]") /\ ~Enclosed(text, "{", "}"))
                     => toon_out = VObj(toon_to_dict(text))
              /\ toon_out.t = (IF Enclosed(text, "[", "]") THEN "arr" ELSE "obj")

C13_Witness ==
    /\ TextDone("toon_to_json")
    /\ toon_text = <<"{", "k", ":", "[", "1", ";", "2", "]", "}">>
    /\ toon_out = VObj(<< <<(<<"k">>), VArr(<<VInt(1), VInt(2)>>)>> >>)

\* a bare token: a trimmed, non-empty text that is neither quoted nor a
\* nested object or array
BareToken(s) ==
    /\ s # <<>> /\ strip(s) = s
    /\ ~Enclosed(s, "\"", "\"") /\ ~Enclosed(s, "{", "}") /\ ~Enclosed(s, "[", "]")

\* s is sign \o digits for at least one digit
SignedDigits(s, sign, digits) ==
    /\ s = sign \o digits
    /\ digits # <<>> /\ \A i \in 1..Len(digits) : digits[i] \in DigitSet

\* token s is written as an integer
IntegerToken(s) ==
    \E sign \in {<<>>, <<"-">>, <<"+">>} :
        SignedDigits(s, sign, SubSeq(s, Len(sign) + 1, Len(s)))

\* token s is written as a decimal number with a point: sign, digits, point,
\* digits, with a digit on at least one side
PointToken(s, sign, k) ==
    /\ k \in (Len(sign) + 1)..Len(s) /\ s[k] = "."
    /\ SubSeq(s, 1, Len(sign)) = sign
    /\ \A i \in (Len(sign) + 1)..Len(s) : i # k => s[i] \in DigitSet
    /\ Len(s) > Len(sign) + 1

IsPointToken(s) ==
    \E sign \in {<<>>, <<"-">>, <<"+">>}, k \in 1..Len(s) : PointToken(s, sign, k)

\* C14: decode_value maps a bare token: null, true, false to None, True,
\* False; otherwise a token written as an integer to that integer; otherwise
\* a token with a '.' written as a number to the float of that value;
\* otherwise to the token itself as a string.  What str() writes for an
\* integer therefore decodes to that integer.
C14_BareTokenOrder ==
    (TextDone("decode_value") /\ BareToken(toon_text))
        => LET s == toon_text IN
           /\ s = NULL_TEXT => toon_out = VNull
           /\ s = TRUE_TEXT => toon_out = VBool(TRUE)
           /\ s = FALSE_TEXT => toon_out = VBool(FALSE)
           /\ IntegerToken(s)
                => /\ toon_out.t = "int"
                   /\ IntToStr(toon_out.v) = s
                        \/ \E n \in 0..1000 :
                               s \in {<<"+">> \o NatToStr(n), <<"0", "0">> \o NatToStr(n)}
                                 /\ toon_out.v = n
           /\ (~IntegerToken(s) /\ IsPointToken(s))
                => /\ toon_out.t = "float"
                   /\ \E sign \in {<<>>, <<"-">>, <<"+">>}, k \in 1..Len(s) :
                          /\ PointToken(s, sign, k)
                          /\ toon_out.v[1] = (sign = <<"-">>)
                          /\ toon_out.v[2] * Pow10(Len(s) - k)
                               = StrToNat(SubSeq(s, Len(sign) + 1, k - 1)
                                              \o SubSeq(s, k + 1, Len(s)))
                                   * Pow10(toon_out.v[3])
           /\ (/\ s \notin {NULL_TEXT, TRUE_TEXT, FALSE_TEXT}
               /\ ~IntegerToken(s) /\ ~IsPointToken(s))
                => toon_out = VStr(s)

C14_Witness ==
    /\ TextDone("decode_value")
    /\ toon_text = <<"-", "1", "0">>
    /\ toon_out = VInt(-10)

EmptyContainers == {VObj(<<>>), VArr(<<>>)}

EmptyText(e) == IF e.t = "obj" THEN <<"{", "}">> ELSE <<"[", "]">>

\* C15: the empty object encodes to the empty text at top level and to {}
\* when nested, the empty array to [] when nested; the empty text decodes to
\* the empty object, {} and [] decode to the empty object and the empty
\* array, and an empty object or array that is the value of an object or the
\* element of an array is encoded as {} or [] there and decoded back.
C15_EmptyContainers ==
    /\ (TextDone("toon_to_json") /\ toon_in = VObj(<<>>))
          => toon_text = <<>> /\ toon_out = VObj(<<>>)
    /\ (TextDone("toon_to_dict") /\ toon_in = VObj(<<>>))
          => toon_text = <<>> /\ toon_out = <<>>
    /\ (TextDone("toon_to_list") /\ toon_in = VArr(<<>>))
          => toon_text = <<>> /\ toon_out = <<>>
    /\ \A e \in EmptyContainers :
          /\ encode_value(e) = EmptyText(e)
          /\ (TextDone("decode_value") /\ toon_text = EmptyText(e))
                => toon_out = e
          /\ (TextDone("toon_to_dict") /\ toon_in = VObj(<< <<(<<"k">>), e>> >>))
                => /\ toon_text = <<"k", ":">> \o EmptyText(e)
                   /\ toon_out = toon_in.v
          /\ (TextDone("toon_to_json") /\ toon_in = VObj(<< <<(<<"k">>), e>> >>))
                => toon_out = toon_in
          /\ (TextDone("toon_to_list") /\ toon_in = VArr(<<e>>))
                => /\ toon_text = EmptyText(e)
                   /\ toon_out = toon_in.v
    /\ (TextDone("decode_value")
          /\ toon_text = <<"[", "[", "]", ";", "{", "}", "]">>)
          => toon_out = VArr(<<VArr(<<>>), VObj(<<>>)>>)
    /\ (TextDone("toon_to_dict")
          /\ toon_text = <<"k", ":", "{", "}", "|", "j", ":", "[", "]">>)
          => toon_out = << <<(<<"k">>), VObj(<<>>)>>, <<(<<"j">>), VArr(<<>>)>> >>

C15_Witness ==
    /\ TextDone("toon_to_list")
    /\ toon_in = VArr(<<VArr(<<>>)>>)
    /\ toon_text = <<"[", "]">>
    /\ toon_out = <<VArr(<<>>)>>

RECURSIVE Balanced(_, _, _, _)
\* text s from position i on closes every brace and bracket it opens, closes
\* none it did not open, and ends outside double quotes; stack holds the open
\* braces and brackets, a backslash makes the next character literal
Balanced(s, i, stack, in_quotes) ==
    IF i > Len(s) THEN stack = <<>> /\ ~in_quotes
    ELSE IF s[i] = "\\" THEN Balanced(s, i + 2, stack, in_quotes)
    ELSE IF s[i] = "\"" THEN Balanced(s, i + 1, stack, ~in_quotes)
    ELSE IF in_quotes THEN Balanced(s, i + 1, stack, in_quotes)
    ELSE IF s[i] \in {"{", "["} THEN Balanced(s, i + 1, <<s[i]>> \o stack, in_quotes)
    ELSE IF s[i] \in {"}", "]"}
         THEN /\ stack # <<>>
              /\ stack[1] = (IF s[i] = "}" THEN "{" ELSE "[")
              /\ Balanced(s, i + 1, Tail(stack), in_quotes)
    ELSE Balanced(s, i + 1, stack, in_quotes)

\* C17: toon_to_json does not return a value for a text with unbalanced
\* braces or brackets or with an unterminated double quote: the call ends
\* in a decode failure.
C17_UnbalancedIsDecodeFailure ==
    (toon_mode = "toon_to_json" /\ ~Balanced(toon_text, 1, <<>>, FALSE))
        => toon_pc # "done"

(***************************************************************************)
(* Claims about the reading calls, checked under SpecRead.                 *)
(***************************************************************************)
\* the role of the user who made the last call
LastCallerRole == (CHOOSE user \in Users : user.id = outcome.user_id).role

\* the last call read request id for a caller who did not create it
ReadOfAnothersRequest ==
    /\ outcome.op \in {"get_request", "get_status_history"}
    /\ outcome.request_id \in DOMAIN requests
    /\ requests[outcome.request_id].user_id # outcome.user_id

\* the requests that pass the status filter of the last list_requests
PassStatusFilter ==
    {id \in DOMAIN requests :
        outcome.args.status_filter = None
            \/ requests[id].status = outcome.args.status_filter[1]}

\* C27: a requestor reads only requests it created: get_request and
\* get_status_history on another user's request fail with
\* PermissionDeniedError, and list_requests returns the caller's own requests
\* whatever requestor_id it passes; a procurement-team user reads every
\* request and lists all of them, or those of the requestor it names.
C27_RequestorReadsOnlyOwn ==
    /\ (outcome.op \in {"get_request", "get_status_history"}
          /\ outcome.request_id \in DOMAIN requests)
         => IF LastCallerRole = "requestor" /\ ReadOfAnothersRequest
            THEN outcome.error = "PermissionDeniedError" /\ outcome.result = <<>>
            ELSE /\ outcome.error = "none"
                 /\ outcome.op = "get_request"
                      => outcome.result = requests[outcome.request_id]
                 /\ outcome.op = "get_status_history"
                      => LET history == status_history[outcome.request_id] IN
                         /\ Len(outcome.result) = Len(history)
                         /\ \A k \in 1..Len(history) :
                                outcome.result[Len(history) + 1 - k] = history[k]
    /\ outcome.op = "list_requests"
         => /\ outcome.error = "none"
            /\ outcome.result.total = Cardinality(outcome.result.requests)
            /\ outcome.result.requests =
                 IF LastCallerRole = "requestor"
                 THEN {id \in PassStatusFilter : requests[id].user_id = outcome.user_id}
                 ELSE IF outcome.args.requestor_id = None THEN PassStatusFilter
                 ELSE {id \in PassStatusFilter :
                          requests[id].user_id = outcome.args.requestor_id[1]}

C27_Witness ==
    /\ outcome.op = "list_requests" /\ outcome.user_id = "alice"
    /\ outcome.args.requestor_id = Some("pat")
    /\ outcome.args.status_filter = None
    /\ DOMAIN requests = {1, 2}
    /\ requests[1].user_id = "pat" /\ requests[2].user_id = "alice"
    /\ outcome.result.requests = {2}

(***************************************************************************)
(* Claims about the sessions, checked under SpecAuth.                      *)
(***************************************************************************)
\* the call of this state presented a token that login or register issued
\* and that a logout has answered with success
PresentsLoggedOutToken ==
    /\ auth_outcome.op = "get_current_user"
    /\ auth_outcome.token # <<>>
    /\ auth_outcome.token[1] \in issued_tokens \cap logged_out

\* C22: once a logout with an access token that login or register issued
\* has succeeded, get_current_user rejects every later request presenting
\* that token as revoked.
C22_LoggedOutTokenIsRevoked ==
    PresentsLoggedOutToken
        => /\ auth_outcome.status = 401
           /\ auth_outcome.detail = "Token has been revoked"

\* no issued token carries the jti claim, so that no logout revokes a token
C22_NothingIsEverRevoked ==
    /\ \A token \in issued_tokens : payload_get(token, "jti") = None
    /\ token_blacklist = {}

(***************************************************************************)
(* Claims about the account lockout, checked under SpecLockout.            *)
(***************************************************************************)
\* the failed attempts of an email that lie within the lockout window
FailedInWindow(email) ==
    {i \in 1..Len(login_attempts) :
        /\ login_attempts[i].email = email_lower(email)
        /\ ~login_attempts[i].success
        /\ clock - login_attempts[i].attempted_at
               <= timedelta_minutes(LOCKOUT_WINDOW_MINUTES)}

\* at least MAX_LOGIN_ATTEMPTS failed attempts lie within the window and
\* the latest of them is less than age ticks old
LockedWithin(email, age) ==
    /\ Cardinality(FailedInWindow(email)) >= MAX_LOGIN_ATTEMPTS
    /\ \E i \in FailedInWindow(email) :
           clock - login_attempts[i].attempted_at < age

\* the step is a login call
LoginStep == auth_outcome'.op = "login"

\* what a login does besides answering locked or not: a locked login checks
\* no password and records nothing, a successful one deletes the failed
\* attempts of the email
LoginEffects ==
    /\ auth_outcome'.status = 429
           => /\ ~auth_outcome'.password_checked
              /\ login_attempts' = login_attempts
    /\ auth_outcome'.status = 200
           => \A i \in 1..Len(login_attempts') :
                  login_attempts'[i].email # email_lower(auth_outcome'.email)

\* C23: a login for an email is rejected as locked (429, no password check,
\* no attempt recorded) exactly when at least MAX_LOGIN_ATTEMPTS failed
\* attempts for the email, recorded since its last successful login, lie
\* within the last LOCKOUT_WINDOW_MINUTES and the latest of them is less
\* than LOCKOUT_DURATION_MINUTES old; a successful login deletes all failed
\* attempts of the email.
C23_LockedExactlyWhileLatestIsYoung ==
    [][LoginStep =>
          /\ auth_outcome'.status = 429
                 <=> LockedWithin(auth_outcome'.email,
                                  timedelta_minutes(LOCKOUT_DURATION_MINUTES))
          /\ LoginEffects]_vars

\* the same with the lockout ending once less than a whole second of
\* LOCKOUT_DURATION_MINUTES is left, which is what the login does
C23_LockedWhileAWholeSecondRemains ==
    [][LoginStep =>
          /\ auth_outcome'.status = 429
                 <=> LockedWithin(auth_outcome'.email,
                                  timedelta_minutes(LOCKOUT_DURATION_MINUTES)
                                      - TicksPerSecond + 1)
          /\ LoginEffects]_vars

\* a login in the last second of the lockout is not answered as locked
C23_LastSecondLogin ==
    /\ auth_outcome.op = "login"
    /\ auth_outcome.status = 401
    /\ \E i \in 1..Len(login_attempts) :
           /\ login_attempts[i].email = "a@x"
           /\ login_attempts[i].attempted_at = clock
    /\ Cardinality({i \in 1..Len(login_attempts) :
                       login_attempts[i].email = "a@x"
                           /\ login_attempts[i].attempted_at < clock})
           >= MAX_LOGIN_ATTEMPTS

(***************************************************************************)
(* Claims about the offer parsing, checked under SpecOffer.                *)
(***************************************************************************)
\* a parse_offer call has been made with TOON requested and the JSON
\* fallback enabled
ToonWithFallback ==
    /\ offer_result # <<>>
    /\ offer_call.self[1].fallback_to_json
    /\ IF offer_call.use_toon = None THEN offer_call.self[1].use_toon
       ELSE offer_call.use_toon[1]

\* the LLM answered the first call, and what the TOON attempt made of it
FirstAnswered == offer_call.answers[1].kind = "text"
ToonAttempt == attempt(offer_call.answers[1], TRUE, TRUE).outcome
JsonAttempt == attempt(offer_call.answers[2], FALSE, FALSE).outcome

\* C29: with TOON requested and the JSON fallback enabled, when the TOON
\* attempt does not yield a valid offer parse_offer makes exactly one more
\* LLM call, in JSON format, and if that one yields an offer returns it with
\* fallback_used = True and format_used = "json"; when the TOON attempt
\* yields an offer there is no second call and fallback_used is False; in
\* no case are there more than two LLM calls.
C29_FallbackOnEveryFailedToonAttempt ==
    ToonWithFallback =>
        LET result == offer_result[1] IN
        /\ Len(result.llm_calls) <= 2
        /\ (FirstAnswered /\ ToonAttempt.exc # "none")
               => /\ result.llm_calls = <<"toon", "json">>
                  /\ JsonAttempt.exc = "none"
                         => /\ result.status = "ok"
                            /\ result.offer = JsonAttempt.value
                            /\ result.metadata.fallback_used = TRUE
                            /\ result.metadata.format_used = "json"
        /\ ToonAttempt.exc = "none"
               => /\ result.llm_calls = <<"toon">>
                  /\ result.status = "ok"
                  /\ result.metadata.fallback_used = FALSE

\* the same for the TOON attempts that end in a ValueError, the failures
\* parse_offer falls back on
C29_FallbackOnValueError ==
    ToonWithFallback =>
        LET result == offer_result[1] IN
        /\ Len(result.llm_calls) <= 2
        /\ ToonAttempt.exc = "ValueError"
               => /\ result.llm_calls = <<"toon", "json">>
                  /\ JsonAttempt.exc = "none"
                         => /\ result.status = "ok"
                            /\ result.offer = JsonAttempt.value
                            /\ result.metadata.fallback_used = TRUE
                            /\ result.metadata.format_used = "json"
        /\ ToonAttempt.exc = "none"
               => /\ result.llm_calls = <<"toon">>
                  /\ result.status = "ok"
                  /\ result.metadata.fallback_used = FALSE

\* a TOON answer that is a list ends parse_offer without a second call
C29_ListAnswerEndsWithoutFallback ==
    /\ ToonWithFallback
    /\ offer_call.answers[1].text = <<"[", "a", ";", "b", "]">>
    /\ offer_call.answers[2].json = OneLineOffer
    /\ offer_result[1].status = "OfferParsingError"
    /\ offer_result[1].llm_calls = <<"toon">>

====
